---- MODULE Spec2Model ----
(***************************************************************************)
(* Phase / scoring state machine of the quiz game, as implemented by the   *)
(* HTTP route handlers.  One game session; the rows of the tables players, *)
(* questions, answers, quiz_questions and quiz_answers that belong to it.  *)
(* Row ids are the positions of the rows in their tables (1, 2, ...); 0    *)
(* stands for SQL NULL / JavaScript undefined.                             *)
(***************************************************************************)
EXTENDS Integers, Sequences, FiniteSets, TLC

VARIABLES
    session,        \* the game_sessions row
    players,        \* players table: sequence of rows, id = position, row 1 is the projector
    questions,      \* questions table (icebreaker): sequence of rows, id = position
    answers,        \* answers table: set of rows, UNIQUE(question_id, player_id)
    quiz_questions, \* quiz_questions table: sequence of rows, id = position
    quiz_answers,   \* quiz_answers table: set of rows, UNIQUE(quiz_question_id, player_id)
    inflight,       \* quiz-answer requests that passed the existence check and have not inserted yet
    pending,        \* other handlers between their reads and their write: see NoPending
    shown,          \* number of show_results calls served so far
    resp,           \* the JSON response of the request served last
    clock,          \* Date.now(), in milliseconds
    client          \* the state of a game page in a browser: see NoClient

vars == <<session, players, questions, answers, quiz_questions, quiz_answers,
          inflight, pending, shown, resp, clock, client>>

----------------------------------------------------------------------------
(* Bounds of the model *)

MaxJoin == 2            \* join requests served
MaxAnswerRows == 2      \* rows in the answers table
MaxQuizAnswerRows == 2  \* rows in the quiz_answers table
MaxShown == 2           \* show_results requests served
MaxRaceJoins == 5       \* join requests admitted when joins race
MaxConcurrent == 2      \* requests of one kind between their reads and their write
MaxGenPlayers == 2      \* non-projector players when the generators are explored
MaxTicks == 2           \* advances of the clock of the page
MaxFeed == 1            \* events on their way to the page, and rows read for it
MaxCalls == 1           \* requests of the page that have not been answered

(* Program constants *)

MaxPlayers == 4             \* join: at most 4 non-projector players
QUESTIONS_PER_PLAYER == 2   \* generateQuizQuestions
DeadlineMs == 20000         \* new Date(Date.now() + 20000)
NumIcebreakers == 3         \* generateIcebreakerQuestions: exactly 3 questions

NULL == 0
HostId == 1

Options == {"A", "B", "C", "D"}
Phases == {"lobby", "asking", "showing_answers", "quiz", "quiz_question",
           "quiz_results", "game_over"}

----------------------------------------------------------------------------
(* Helpers *)

Max(a, b) == IF a >= b THEN a ELSE b

RECURSIVE SeqOfSet(_)
SeqOfSet(S) ==
    IF S = {} THEN <<>>
    ELSE LET m == CHOOSE x \in S : \A y \in S : x <= y
         IN <<m>> \o SeqOfSet(S \ {m})

(* String.prototype.trim on a text given as a sequence of characters *)
RECURSIVE TrimLeft(_)
TrimLeft(t) ==
    IF t # <<>> /\ Head(t) = " " THEN TrimLeft(Tail(t)) ELSE t

RECURSIVE TrimRight(_)
TrimRight(t) ==
    IF t # <<>> /\ t[Len(t)] = " " THEN TrimRight(SubSeq(t, 1, Len(t) - 1)) ELSE t

Trim(t) == TrimRight(TrimLeft(t))

(* .order(column, { ascending: true }) on a table whose column values are   *)
(* distinct: the rows of the table by ascending key                        *)
RECURSIVE OrderBy(_, _)
OrderBy(table, column) ==
    IF table = <<>> THEN <<>>
    ELSE LET i == CHOOSE i \in DOMAIN table :
                      \A j \in DOMAIN table : table[i][column] <= table[j][column]
             rest == [j \in 1..(Len(table) - 1) |->
                         IF j < i THEN table[j] ELSE table[j + 1]]
         IN <<table[i]>> \o OrderBy(rest, column)

NoAnswer == [quiz_question_id |-> NULL, player_id |-> NULL,
             selected_option |-> "", is_correct |-> FALSE]

Response(op, status, error) ==
    [op |-> op, req |-> "", status |-> status, error |-> error,
     action |-> "", scoreChanges |-> <<>>, answer |-> NoAnswer,
     questions |-> <<>>, quizQuestions |-> <<>>]

(* the response to a request that carried an action parameter *)
ActionResponse(op, action, status, error) ==
    [Response(op, status, error) EXCEPT !.req = action]

(* .eq('id', playerId).eq('game_id', game.id).single() *)
PlayerFound(playerId) == playerId \in DOMAIN players

(* the roster query without the is_projector filter *)
NonProjectorsMutC29 == DOMAIN players

(* .eq('is_projector', false) *)
NonProjectors == {i \in DOMAIN players : ~players[i].is_projector}

----------------------------------------------------------------------------
(* State after POST /api/game/create *)

(* no handler is between its reads and its write.  create: the session row *)
(* is inserted and the projector row is not yet; joins: join requests that *)
(* passed the capacity check and have not inserted; answers: icebreaker    *)
(* answers that passed the checks and have not been upserted               *)
NoPending == [create |-> FALSE, joins |-> 0, answers |-> {},
              generate |-> <<>>, quizGenerate |-> <<>>,
              generateChecked |-> 0, quizGenerateChecked |-> 0,
              showResults |-> <<>>, reported |-> <<>>]

(* no game_sessions row, and the game state of a page before it has loaded *)
NoSession == [status |-> "", phase |-> "",
              current_question_id |-> NULL, current_question_number |-> 0,
              current_quiz_question_id |-> NULL,
              current_quiz_question_number |-> 0,
              quiz_started_at |-> NULL, question_deadline |-> NULL]

(* a game page that has not loaded: useState(null) for game, useState(20)  *)
(* for timeLeft, no interval in timerRef, no request and nothing from the  *)
(* subscriptions or the poll in flight; wrote names the callback that      *)
(* called setGame last                                                     *)
NoClient == [playerId |-> NULL, game |-> NoSession, wrote |-> "", timeLeft |-> 20,
             timer |-> FALSE, feed |-> {}, refresh |-> {}, calls |-> {},
             responses |-> {}]

Init ==
    /\ session = [status |-> "waiting", phase |-> "lobby",
                  current_question_id |-> NULL, current_question_number |-> 0,
                  current_quiz_question_id |-> NULL,
                  current_quiz_question_number |-> 0,
                  quiz_started_at |-> NULL, question_deadline |-> NULL]
    /\ players = << [is_projector |-> TRUE, score |-> 0] >>
    /\ questions = <<>>
    /\ answers = {}
    /\ quiz_questions = <<>>
    /\ quiz_answers = {}
    /\ inflight = {}
    /\ pending = NoPending
    /\ shown = 0
    /\ resp = Response("create", 200, "")
    /\ clock = 0
    /\ client = NoClient

(* POST /api/game/create, statement by statement.  Before it there is no   *)
(* game_sessions row: NoSession.                                           *)

InitCreate ==
    /\ session = NoSession
    /\ players = <<>>
    /\ questions = <<>>
    /\ answers = {}
    /\ quiz_questions = <<>>
    /\ quiz_answers = {}
    /\ inflight = {}
    /\ pending = NoPending
    /\ shown = 0
    /\ resp = Response("", 0, "")
    /\ clock = 0
    /\ client = NoClient

(* lines 156-188: the check of the name and the insert of the session row *)
CreateSession(playerName) ==
    /\ session = NoSession
    /\ IF playerName = <<>> \/ Len(Trim(playerName)) < 1
         THEN /\ resp' = Response("create", 400, "Player name required")
              /\ UNCHANGED <<session, pending>>
       ELSE /\ session' = [NoSession EXCEPT !.status = "waiting", !.phase = "lobby"]
            /\ pending' = [pending EXCEPT !.create = TRUE]
            /\ UNCHANGED resp
    /\ UNCHANGED <<players, questions, answers, quiz_questions, quiz_answers,
                   inflight, shown>>

(* lines 190-211: the insert of the projector row, which the store accepts *)
(* (inserted) or fails, and the response; the session row stays either way *)
CreateProjector(inserted) ==
    /\ pending.create
    /\ pending' = [pending EXCEPT !.create = FALSE]
    /\ IF inserted
         THEN /\ players' = Append(players, [is_projector |-> TRUE, score |-> 0])
              /\ resp' = Response("create", 200, "")
         ELSE /\ resp' = Response("create", 500, "Failed to create player")
              /\ UNCHANGED players
    /\ UNCHANGED <<session, questions, answers, quiz_questions, quiz_answers,
                   inflight, shown>>

----------------------------------------------------------------------------
(* POST /api/game/join *)

Join ==
    /\ IF session.status # "waiting"
         THEN /\ resp' = Response("join", 400, "Game already started")
              /\ UNCHANGED players
       ELSE IF Cardinality(NonProjectors) >= MaxPlayers
         THEN /\ resp' = Response("join", 400, "Game is full (4 players max)")
              /\ UNCHANGED players
       ELSE /\ players' = Append(players, [is_projector |-> FALSE, score |-> 0])
            /\ resp' = Response("join", 200, "")
    /\ UNCHANGED <<session, questions, answers, quiz_questions, quiz_answers,
                   inflight, pending, shown>>

(* The same handler when other requests are served between its reads and   *)
(* its write: the status check and the count of lines 29-47 ...            *)
JoinCheck ==
    /\ IF session.status # "waiting"
         THEN /\ resp' = Response("join", 400, "Game already started")
              /\ UNCHANGED pending
       ELSE IF Cardinality(NonProjectors) >= MaxPlayers
         THEN /\ resp' = Response("join", 400, "Game is full (4 players max)")
              /\ UNCHANGED pending
       ELSE /\ pending' = [pending EXCEPT !.joins = @ + 1]
            /\ UNCHANGED resp
    /\ UNCHANGED <<session, players, questions, answers, quiz_questions,
                   quiz_answers, inflight, shown>>

(* ... and the insert of the player row with the response (lines 52-77) *)
JoinInsert ==
    /\ pending.joins > 0
    /\ pending' = [pending EXCEPT !.joins = @ - 1]
    /\ players' = Append(players, [is_projector |-> FALSE, score |-> 0])
    /\ resp' = Response("join", 200, "")
    /\ UNCHANGED <<session, questions, answers, quiz_questions, quiz_answers,
                   inflight, shown>>

(* POST /api/game/start *)

(* Start without the is_projector check *)
StartMutC17(playerId) ==
    /\ IF ~PlayerFound(playerId)
         THEN /\ resp' = Response("start", 404, "Player not found in game")
              /\ UNCHANGED session
       ELSE IF session.status # "waiting"
         THEN /\ resp' = Response("start", 400, "Game already started or finished")
              /\ UNCHANGED session
       ELSE /\ session' = [session EXCEPT !.status = "playing"]
            /\ resp' = Response("start", 200, "")
    /\ UNCHANGED <<players, questions, answers, quiz_questions, quiz_answers,
                   inflight, pending, shown>>

(* Start without the check of the status *)
StartMutC18(playerId) ==
    /\ IF ~PlayerFound(playerId)
         THEN /\ resp' = Response("start", 404, "Player not found in game")
              /\ UNCHANGED session
       ELSE IF ~players[playerId].is_projector
         THEN /\ resp' = Response("start", 403, "Only the host can start the game")
              /\ UNCHANGED session
       ELSE /\ session' = [session EXCEPT !.status = "playing"]
            /\ resp' = Response("start", 200, "")
    /\ UNCHANGED <<players, questions, answers, quiz_questions, quiz_answers,
                   inflight, pending, shown>>

Start(playerId) ==
    /\ IF ~PlayerFound(playerId)
         THEN /\ resp' = Response("start", 404, "Player not found in game")
              /\ UNCHANGED session
       ELSE IF ~players[playerId].is_projector
         THEN /\ resp' = Response("start", 403, "Only the host can start the game")
              /\ UNCHANGED session
       ELSE IF session.status # "waiting"
         THEN /\ resp' = Response("start", 400, "Game already started or finished")
              /\ UNCHANGED session
       ELSE /\ session' = [session EXCEPT !.status = "playing"]
            /\ resp' = Response("start", 200, "")
    /\ UNCHANGED <<players, questions, answers, quiz_questions, quiz_answers,
                   inflight, pending, shown>>

----------------------------------------------------------------------------
(* lib/openai.ts generateIcebreakerQuestions: content is what the model    *)
(* returned, as the list of strings it parses to (<<>> when unparsable)    *)

FallbackIcebreakers == <<"fallback1", "fallback2", "fallback3">>

(* the content that stands for the call to the model raising: the await of *)
(* line 8 is outside the try block, so the exception leaves the function   *)
Throws == <<"throws">>

generateIcebreakerQuestions(content) ==
    IF content = Throws THEN Throws
    ELSE IF Len(content) = NumIcebreakers THEN content ELSE FallbackIcebreakers

(* FindQuestionId looking one question back *)
FindQuestionIdMutC38(qs, n) ==
    IF \E i \in DOMAIN qs : qs[i].question_number = n - 1
      THEN CHOOSE i \in DOMAIN qs : qs[i].question_number = n - 1
      ELSE NULL

(* questions?.find(q => q.question_number === n)?.id *)
FindQuestionId(qs, n) ==
    IF \E i \in DOMAIN qs : qs[i].question_number = n
      THEN CHOOSE i \in DOMAIN qs :
               /\ qs[i].question_number = n
               /\ \A j \in DOMAIN qs : qs[j].question_number = n => i <= j
      ELSE NULL

(* POST /api/game/questions *)

(* GenerateQuestions without the check for existing questions *)
GenerateQuestionsMutC13(playerId, content) ==
    /\ IF ~PlayerFound(playerId)
         THEN /\ resp' = Response("generate_questions", 404, "Player not found in game")
              /\ UNCHANGED <<session, questions>>
       ELSE IF ~players[playerId].is_projector
         THEN /\ resp' = Response("generate_questions", 403,
                                  "Only the host can generate questions")
              /\ UNCHANGED <<session, questions>>
       ELSE IF generateIcebreakerQuestions(content) = Throws
         THEN /\ resp' = Response("generate_questions", 500, "Internal server error")
              /\ UNCHANGED <<session, questions>>
       ELSE LET questionTexts == generateIcebreakerQuestions(content)
                inserted == [i \in 1..Len(questionTexts) |->
                                [question_number |-> i,
                                 question_text |-> questionTexts[i]]]
            IN /\ questions' = inserted
               /\ session' = [session EXCEPT
                                !.phase = "asking",
                                !.current_question_number = 1,
                                !.current_question_id = FindQuestionId(inserted, 1)]
               /\ resp' = [Response("generate_questions", 200, "")
                             EXCEPT !.questions = inserted]
    /\ UNCHANGED <<players, answers, quiz_questions, quiz_answers, inflight,
                   pending, shown>>

GenerateQuestions(playerId, content) ==
    /\ IF ~PlayerFound(playerId)
         THEN /\ resp' = Response("generate_questions", 404, "Player not found in game")
              /\ UNCHANGED <<session, questions>>
       ELSE IF ~players[playerId].is_projector
         THEN /\ resp' = Response("generate_questions", 403,
                                  "Only the host can generate questions")
              /\ UNCHANGED <<session, questions>>
       ELSE IF Len(questions) > 0
         THEN /\ resp' = [Response("generate_questions", 200, "")
                            EXCEPT !.questions = OrderBy(questions, "question_number")]
              /\ UNCHANGED <<session, questions>>
       ELSE IF generateIcebreakerQuestions(content) = Throws
         THEN /\ resp' = Response("generate_questions", 500, "Internal server error")
              /\ UNCHANGED <<session, questions>>
       ELSE LET questionTexts == generateIcebreakerQuestions(content)
                inserted == [i \in 1..Len(questionTexts) |->
                                [question_number |-> i,
                                 question_text |-> questionTexts[i]]]
            IN /\ questions' = inserted
               /\ session' = [session EXCEPT
                                !.phase = "asking",
                                !.current_question_number = 1,
                                !.current_question_id = FindQuestionId(inserted, 1)]
               /\ resp' = [Response("generate_questions", 200, "")
                             EXCEPT !.questions = inserted]
    /\ UNCHANGED <<players, answers, quiz_questions, quiz_answers, inflight,
                   pending, shown>>

----------------------------------------------------------------------------
(* POST /api/game/next-question (icebreaker round) *)

(* NextQuestion ending the round one question early *)
NextQuestionMutC19(playerId, action) ==
    /\ IF ~PlayerFound(playerId)
         THEN /\ resp' = ActionResponse("next-question", action, 404, "Player not found in game")
              /\ UNCHANGED session
       ELSE IF ~players[playerId].is_projector
         THEN /\ resp' = ActionResponse("next-question", action, 403,
                                  "Only the host can advance the game")
              /\ UNCHANGED session
       ELSE IF Len(questions) = 0
         THEN /\ resp' = ActionResponse("next-question", action, 404, "No questions found")
              /\ UNCHANGED session
       ELSE LET totalQuestions == Len(questions)
                currentQuestionNumber == session.current_question_number
                nextQuestionNumber == currentQuestionNumber + 1
            IN IF action = "show_answers"
                 THEN /\ session' = [session EXCEPT !.phase = "showing_answers"]
                      /\ resp' = [ActionResponse("next-question", action, 200, "")
                                    EXCEPT !.action = "showing_answers"]
               ELSE IF action = "next_question"
                 THEN IF nextQuestionNumber >= totalQuestions
                        THEN /\ session' = [session EXCEPT
                                   !.phase = "quiz",
                                   !.current_question_number = totalQuestions]
                             /\ resp' = [ActionResponse("next-question", action, 200, "")
                                           EXCEPT !.action = "quiz_start"]
                        ELSE /\ session' = [session EXCEPT
                                   !.phase = "asking",
                                   !.current_question_number = nextQuestionNumber,
                                   !.current_question_id =
                                       FindQuestionId(questions, nextQuestionNumber)]
                             /\ resp' = [ActionResponse("next-question", action, 200, "")
                                           EXCEPT !.action = "next_question"]
               ELSE /\ resp' = ActionResponse("next-question", action, 400, "Invalid action")
                    /\ UNCHANGED session
    /\ UNCHANGED <<players, questions, answers, quiz_questions, quiz_answers,
                   inflight, pending, shown>>

(* NextQuestion whose show_answers also clears the question pointer *)
NextQuestionMutC21(playerId, action) ==
    /\ IF ~PlayerFound(playerId)
         THEN /\ resp' = ActionResponse("next-question", action, 404, "Player not found in game")
              /\ UNCHANGED session
       ELSE IF ~players[playerId].is_projector
         THEN /\ resp' = ActionResponse("next-question", action, 403,
                                  "Only the host can advance the game")
              /\ UNCHANGED session
       ELSE IF Len(questions) = 0
         THEN /\ resp' = ActionResponse("next-question", action, 404, "No questions found")
              /\ UNCHANGED session
       ELSE LET totalQuestions == Len(questions)
                currentQuestionNumber == session.current_question_number
                nextQuestionNumber == currentQuestionNumber + 1
            IN IF action = "show_answers"
                 THEN /\ session' = [session EXCEPT !.phase = "showing_answers",
                                                     !.current_question_id = NULL]
                      /\ resp' = [ActionResponse("next-question", action, 200, "")
                                    EXCEPT !.action = "showing_answers"]
               ELSE IF action = "next_question"
                 THEN IF nextQuestionNumber > totalQuestions
                        THEN /\ session' = [session EXCEPT
                                   !.phase = "quiz",
                                   !.current_question_number = totalQuestions]
                             /\ resp' = [ActionResponse("next-question", action, 200, "")
                                           EXCEPT !.action = "quiz_start"]
                        ELSE /\ session' = [session EXCEPT
                                   !.phase = "asking",
                                   !.current_question_number = nextQuestionNumber,
                                   !.current_question_id =
                                       FindQuestionId(questions, nextQuestionNumber)]
                             /\ resp' = [ActionResponse("next-question", action, 200, "")
                                           EXCEPT !.action = "next_question"]
               ELSE /\ resp' = ActionResponse("next-question", action, 400, "Invalid action")
                    /\ UNCHANGED session
    /\ UNCHANGED <<players, questions, answers, quiz_questions, quiz_answers,
                   inflight, pending, shown>>

NextQuestion(playerId, action) ==
    /\ IF ~PlayerFound(playerId)
         THEN /\ resp' = ActionResponse("next-question", action, 404, "Player not found in game")
              /\ UNCHANGED session
       ELSE IF ~players[playerId].is_projector
         THEN /\ resp' = ActionResponse("next-question", action, 403,
                                  "Only the host can advance the game")
              /\ UNCHANGED session
       ELSE IF Len(questions) = 0
         THEN /\ resp' = ActionResponse("next-question", action, 404, "No questions found")
              /\ UNCHANGED session
       ELSE LET totalQuestions == Len(questions)
                currentQuestionNumber == session.current_question_number
                nextQuestionNumber == currentQuestionNumber + 1
            IN IF action = "show_answers"
                 THEN /\ session' = [session EXCEPT !.phase = "showing_answers"]
                      /\ resp' = [ActionResponse("next-question", action, 200, "")
                                    EXCEPT !.action = "showing_answers"]
               ELSE IF action = "next_question"
                 THEN IF nextQuestionNumber > totalQuestions
                        THEN /\ session' = [session EXCEPT
                                   !.phase = "quiz",
                                   !.current_question_number = totalQuestions]
                             /\ resp' = [ActionResponse("next-question", action, 200, "")
                                           EXCEPT !.action = "quiz_start"]
                        ELSE /\ session' = [session EXCEPT
                                   !.phase = "asking",
                                   !.current_question_number = nextQuestionNumber,
                                   !.current_question_id =
                                       FindQuestionId(questions, nextQuestionNumber)]
                             /\ resp' = [ActionResponse("next-question", action, 200, "")
                                           EXCEPT !.action = "next_question"]
               ELSE /\ resp' = ActionResponse("next-question", action, 400, "Invalid action")
                    /\ UNCHANGED session
    /\ UNCHANGED <<players, questions, answers, quiz_questions, quiz_answers,
                   inflight, pending, shown>>

----------------------------------------------------------------------------
(* POST /api/game/answer (icebreaker answer, upsert on question_id,player_id) *)

(* Upsert as a plain insert into a table without the unique key *)
UpsertMutC12(table, row) == table \cup {row}

Upsert(table, row) ==
    {r \in table : ~(r.question_id = row.question_id /\ r.player_id = row.player_id)}
        \cup {row}

SubmitAnswer(questionId, playerId, answer) ==
    /\ IF questionId = NULL \/ playerId = NULL \/ answer = <<>>
         THEN /\ resp' = Response("answer", 400,
                                  "Question ID, player ID, and answer required")
              /\ UNCHANGED answers
       ELSE IF ~PlayerFound(playerId)
         THEN /\ resp' = Response("answer", 404, "Player not found")
              /\ UNCHANGED answers
       ELSE IF questionId \notin DOMAIN questions
         THEN /\ resp' = Response("answer", 404, "Question not found")
              /\ UNCHANGED answers
       ELSE /\ answers' = Upsert(answers, [question_id |-> questionId,
                                           player_id |-> playerId,
                                           answer_text |-> Trim(answer)])
            /\ resp' = Response("answer", 200, "")
    /\ UNCHANGED <<session, players, questions, quiz_questions, quiz_answers,
                   inflight, pending, shown>>

(* The same handler when other requests are served between its reads and   *)
(* its write: the checks of lines 225-249 ...                              *)
AnswerCheck(questionId, playerId, answer) ==
    /\ IF questionId = NULL \/ playerId = NULL \/ answer = <<>>
         THEN /\ resp' = Response("answer", 400,
                                  "Question ID, player ID, and answer required")
              /\ UNCHANGED pending
       ELSE IF ~PlayerFound(playerId)
         THEN /\ resp' = Response("answer", 404, "Player not found")
              /\ UNCHANGED pending
       ELSE IF questionId \notin DOMAIN questions
         THEN /\ resp' = Response("answer", 404, "Question not found")
              /\ UNCHANGED pending
       ELSE LET req == [question_id |-> questionId, player_id |-> playerId,
                        answer |-> answer]
            IN /\ req \notin pending.answers
               /\ pending' = [pending EXCEPT !.answers = @ \cup {req}]
               /\ UNCHANGED resp
    /\ UNCHANGED <<session, players, questions, answers, quiz_questions,
                   quiz_answers, inflight, shown>>

(* ... and the upsert statement with the response (lines 251-272) *)
AnswerUpsert(req) ==
    /\ req \in pending.answers
    /\ pending' = [pending EXCEPT !.answers = @ \ {req}]
    /\ answers' = Upsert(answers, [question_id |-> req.question_id,
                                   player_id |-> req.player_id,
                                   answer_text |-> Trim(req.answer)])
    /\ resp' = Response("answer", 200, "")
    /\ UNCHANGED <<session, players, questions, quiz_questions, quiz_answers,
                   inflight, shown>>

----------------------------------------------------------------------------
(* lib/openai.ts generateQuestionsForPlayer: content is the list of the    *)
(* correctAnswer fields of the array the model returned (<<>> when the     *)
(* call throws, the output does not parse or the array is empty)           *)

Min(a, b) == IF a <= b THEN a ELSE b

generateQuestionsForPlayer(playerId, numAnswers, content) ==
    IF Len(content) > 0
      THEN [i \in 1..Min(Len(content), QUESTIONS_PER_PLAYER) |->
               [aboutPlayerId |-> playerId, correctAnswer |-> content[i]]]
      ELSE [i \in 1..Min(numAnswers, QUESTIONS_PER_PLAYER) |->
               [aboutPlayerId |-> playerId, correctAnswer |-> "A"]]

(* the for loop that fills allQuestions *)
RECURSIVE AllQuestions(_, _, _)
AllQuestions(playersData, numAnswers, llm) ==
    IF playersData = <<>> THEN <<>>
    ELSE generateQuestionsForPlayer(Head(playersData), numAnswers[Head(playersData)],
                                    llm[Head(playersData)])
            \o AllQuestions(Tail(playersData), numAnswers, llm)

(* allQuestions.find((q, idx) => q.aboutPlayerId === id &&                 *)
(*   allQuestions.filter((pq, pidx) => same player && pidx < idx).length === round) *)
FindRoundMutC24(allQuestions, playerId, round) ==
    {idx \in DOMAIN allQuestions :
        /\ allQuestions[idx].aboutPlayerId = playerId
        /\ Cardinality({pidx \in DOMAIN allQuestions :
                           /\ allQuestions[pidx].aboutPlayerId = playerId
                           /\ pidx < idx}) <= round}

FindRound(allQuestions, playerId, round) ==
    {idx \in DOMAIN allQuestions :
        /\ allQuestions[idx].aboutPlayerId = playerId
        /\ Cardinality({pidx \in DOMAIN allQuestions :
                           /\ allQuestions[pidx].aboutPlayerId = playerId
                           /\ pidx < idx}) = round}

RECURSIVE InterleaveRound(_, _, _)
InterleaveRound(allQuestions, playersData, round) ==
    IF playersData = <<>> THEN <<>>
    ELSE LET found == FindRound(allQuestions, Head(playersData), round)
             rest == InterleaveRound(allQuestions, Tail(playersData), round)
         IN IF found = {} THEN rest
            ELSE <<allQuestions[CHOOSE i \in found : \A j \in found : i <= j]>> \o rest

RECURSIVE Interleave(_, _, _)
Interleave(allQuestions, playersData, round) ==
    IF round >= QUESTIONS_PER_PLAYER THEN <<>>
    ELSE InterleaveRound(allQuestions, playersData, round)
            \o Interleave(allQuestions, playersData, round + 1)

generateQuizQuestions(playersData, numAnswers, llm) ==
    Interleave(AllQuestions(playersData, numAnswers, llm), playersData, 0)

(* quizQuestions.find(q => q.question_order === n) *)
FindQuizQuestionId(qqs, n) ==
    IF \E i \in DOMAIN qqs : qqs[i].question_order = n
      THEN CHOOSE i \in DOMAIN qqs :
               /\ qqs[i].question_order = n
               /\ \A j \in DOMAIN qqs : qqs[j].question_order = n => i <= j
      ELSE NULL

(* POST /api/game/quiz/generate: llm maps each player id to the model's    *)
(* output for that player, now is Date.now()                               *)

(* QuizGenerate without the check for existing quiz questions *)
QuizGenerateMutC14(playerId, llm, now) ==
    /\ IF ~PlayerFound(playerId)
         THEN /\ resp' = Response("quiz_generate", 404, "Player not found in game")
              /\ UNCHANGED <<session, quiz_questions>>
       ELSE IF ~players[playerId].is_projector
         THEN /\ resp' = Response("quiz_generate", 403,
                                  "Only the host can generate quiz questions")
              /\ UNCHANGED <<session, quiz_questions>>
       ELSE IF NonProjectors = {}
         THEN /\ resp' = Response("quiz_generate", 404, "No players found")
              /\ UNCHANGED <<session, quiz_questions>>
       ELSE IF Len(questions) = 0
         THEN /\ resp' = Response("quiz_generate", 404, "No icebreaker questions found")
              /\ UNCHANGED <<session, quiz_questions>>
       ELSE IF {a \in answers : a.question_id \in DOMAIN questions} = {}
         THEN /\ resp' = Response("quiz_generate", 404, "No icebreaker answers found")
              /\ UNCHANGED <<session, quiz_questions>>
       ELSE LET numAnswers == [p \in NonProjectors |->
                                  Cardinality({a \in answers : a.player_id = p})]
                playersWithAnswers ==
                    SeqOfSet({p \in NonProjectors : numAnswers[p] > 0})
            IN IF playersWithAnswers = <<>>
                 THEN /\ resp' = Response("quiz_generate", 400,
                                          "No player answers to base quiz on")
                      /\ UNCHANGED <<session, quiz_questions>>
               ELSE LET quizQuestions ==
                            generateQuizQuestions(playersWithAnswers, numAnswers, llm)
                        inserted == [i \in 1..Len(quizQuestions) |->
                            [about_player_id |-> quizQuestions[i].aboutPlayerId,
                             correct_answer |-> quizQuestions[i].correctAnswer,
                             question_order |-> i]]
                    IN /\ quiz_questions' = quiz_questions \o inserted
                       /\ session' = [session EXCEPT
                              !.phase = "quiz_question",
                              !.current_quiz_question_id = FindQuizQuestionId(inserted, 1),
                              !.current_quiz_question_number = 1,
                              !.quiz_started_at = now,
                              !.question_deadline = now + DeadlineMs]
                       /\ resp' = [Response("quiz_generate", 200, "")
                                     EXCEPT !.quizQuestions = inserted]
    /\ UNCHANGED <<players, questions, answers, quiz_answers, inflight,
                   pending, shown>>

QuizGenerate(playerId, llm, now) ==
    /\ IF ~PlayerFound(playerId)
         THEN /\ resp' = Response("quiz_generate", 404, "Player not found in game")
              /\ UNCHANGED <<session, quiz_questions>>
       ELSE IF ~players[playerId].is_projector
         THEN /\ resp' = Response("quiz_generate", 403,
                                  "Only the host can generate quiz questions")
              /\ UNCHANGED <<session, quiz_questions>>
       ELSE IF Len(quiz_questions) > 0
         THEN /\ resp' = [Response("quiz_generate", 200, "") EXCEPT
                            !.quizQuestions = OrderBy(quiz_questions, "question_order")]
              /\ UNCHANGED <<session, quiz_questions>>
       ELSE IF NonProjectors = {}
         THEN /\ resp' = Response("quiz_generate", 404, "No players found")
              /\ UNCHANGED <<session, quiz_questions>>
       ELSE IF Len(questions) = 0
         THEN /\ resp' = Response("quiz_generate", 404, "No icebreaker questions found")
              /\ UNCHANGED <<session, quiz_questions>>
       ELSE IF {a \in answers : a.question_id \in DOMAIN questions} = {}
         THEN /\ resp' = Response("quiz_generate", 404, "No icebreaker answers found")
              /\ UNCHANGED <<session, quiz_questions>>
       ELSE LET numAnswers == [p \in NonProjectors |->
                                  Cardinality({a \in answers : a.player_id = p})]
                playersWithAnswers ==
                    SeqOfSet({p \in NonProjectors : numAnswers[p] > 0})
            IN IF playersWithAnswers = <<>>
                 THEN /\ resp' = Response("quiz_generate", 400,
                                          "No player answers to base quiz on")
                      /\ UNCHANGED <<session, quiz_questions>>
               ELSE LET quizQuestions ==
                            generateQuizQuestions(playersWithAnswers, numAnswers, llm)
                        inserted == [i \in 1..Len(quizQuestions) |->
                            [about_player_id |-> quizQuestions[i].aboutPlayerId,
                             correct_answer |-> quizQuestions[i].correctAnswer,
                             question_order |-> i]]
                    IN /\ quiz_questions' = inserted
                       /\ session' = [session EXCEPT
                              !.phase = "quiz_question",
                              !.current_quiz_question_id = FindQuizQuestionId(inserted, 1),
                              !.current_quiz_question_number = 1,
                              !.quiz_started_at = now,
                              !.question_deadline = now + DeadlineMs]
                       /\ resp' = [Response("quiz_generate", 200, "")
                                     EXCEPT !.quizQuestions = inserted]
    /\ UNCHANGED <<players, questions, answers, quiz_answers, inflight,
                   pending, shown>>

----------------------------------------------------------------------------
(* The two generate handlers statement by statement: the insert of the     *)
(* generated rows, whose error is tested, and the session update after it, *)
(* whose result is dropped. pending.generate and pending.quizGenerate hold *)
(* the requests between the two statements.                                *)

(* the id, which is the position in the table, of the row found at        *)
(* position i of the rows an insert returned, the table holding base rows  *)
(* before the insert                                                       *)
RowId(base, i) == IF i = NULL THEN NULL ELSE base + i

(* generate-questions up to the insert: stored is FALSE when the insert    *)
(* returns insertError                                                     *)
GenerateInsert(playerId, content, stored) ==
    /\ IF ~PlayerFound(playerId)
         THEN /\ resp' = Response("generate_questions", 404, "Player not found in game")
              /\ UNCHANGED <<questions, pending>>
       ELSE IF ~players[playerId].is_projector
         THEN /\ resp' = Response("generate_questions", 403,
                                  "Only the host can generate questions")
              /\ UNCHANGED <<questions, pending>>
       ELSE IF Len(questions) > 0
         THEN /\ resp' = [Response("generate_questions", 200, "")
                            EXCEPT !.questions = OrderBy(questions, "question_number")]
              /\ UNCHANGED <<questions, pending>>
       ELSE IF generateIcebreakerQuestions(content) = Throws
         THEN /\ resp' = Response("generate_questions", 500, "Internal server error")
              /\ UNCHANGED <<questions, pending>>
       ELSE IF ~stored
         THEN /\ resp' = Response("generate_questions", 500, "Failed to save questions")
              /\ UNCHANGED <<questions, pending>>
       ELSE LET questionTexts == generateIcebreakerQuestions(content)
                inserted == [i \in 1..Len(questionTexts) |->
                                [question_number |-> i,
                                 question_text |-> questionTexts[i]]]
            IN /\ questions' = inserted
               /\ pending' = [pending EXCEPT !.generate =
                      Append(@, [inserted |-> inserted, base |-> Len(questions)])]
               /\ UNCHANGED resp
    /\ UNCHANGED <<session, players, answers, quiz_questions, quiz_answers,
                   inflight, shown>>

(* the session update and the response: updated is FALSE when the store    *)
(* returns an error for the update, which the handler never reads          *)
GenerateUpdate(updated) ==
    /\ pending.generate # <<>>
    /\ LET inserted == Head(pending.generate).inserted
           base == Head(pending.generate).base
       IN /\ session' = IF updated
                          THEN [session EXCEPT
                                  !.phase = "asking",
                                  !.current_question_number = 1,
                                  !.current_question_id =
                                      RowId(base, FindQuestionId(inserted, 1))]
                          ELSE session
          /\ resp' = [Response("generate_questions", 200, "")
                        EXCEPT !.questions = inserted]
    /\ pending' = [pending EXCEPT !.generate = Tail(@)]
    /\ UNCHANGED <<players, questions, answers, quiz_questions, quiz_answers,
                   inflight, shown>>

(* quiz/generate up to the insert *)
QuizGenerateInsert(playerId, llm, now, stored) ==
    /\ IF ~PlayerFound(playerId)
         THEN /\ resp' = Response("quiz_generate", 404, "Player not found in game")
              /\ UNCHANGED <<quiz_questions, pending>>
       ELSE IF ~players[playerId].is_projector
         THEN /\ resp' = Response("quiz_generate", 403,
                                  "Only the host can generate quiz questions")
              /\ UNCHANGED <<quiz_questions, pending>>
       ELSE IF Len(quiz_questions) > 0
         THEN /\ resp' = [Response("quiz_generate", 200, "") EXCEPT
                            !.quizQuestions = OrderBy(quiz_questions, "question_order")]
              /\ UNCHANGED <<quiz_questions, pending>>
       ELSE IF NonProjectors = {}
         THEN /\ resp' = Response("quiz_generate", 404, "No players found")
              /\ UNCHANGED <<quiz_questions, pending>>
       ELSE IF Len(questions) = 0
         THEN /\ resp' = Response("quiz_generate", 404, "No icebreaker questions found")
              /\ UNCHANGED <<quiz_questions, pending>>
       ELSE IF {a \in answers : a.question_id \in DOMAIN questions} = {}
         THEN /\ resp' = Response("quiz_generate", 404, "No icebreaker answers found")
              /\ UNCHANGED <<quiz_questions, pending>>
       ELSE LET numAnswers == [p \in NonProjectors |->
                                  Cardinality({a \in answers : a.player_id = p})]
                playersWithAnswers ==
                    SeqOfSet({p \in NonProjectors : numAnswers[p] > 0})
            IN IF playersWithAnswers = <<>>
                 THEN /\ resp' = Response("quiz_generate", 400,
                                          "No player answers to base quiz on")
                      /\ UNCHANGED <<quiz_questions, pending>>
               ELSE IF ~stored
                 THEN /\ resp' = Response("quiz_generate", 500,
                                          "Failed to save quiz questions")
                      /\ UNCHANGED <<quiz_questions, pending>>
               ELSE LET quizQuestions ==
                            generateQuizQuestions(playersWithAnswers, numAnswers, llm)
                        inserted == [i \in 1..Len(quizQuestions) |->
                            [about_player_id |-> quizQuestions[i].aboutPlayerId,
                             correct_answer |-> quizQuestions[i].correctAnswer,
                             question_order |-> i]]
                    IN /\ quiz_questions' = quiz_questions \o inserted
                       /\ pending' = [pending EXCEPT !.quizGenerate =
                              Append(@, [inserted |-> inserted, now |-> now,
                                         base |-> Len(quiz_questions)])]
                       /\ UNCHANGED resp
    /\ UNCHANGED <<session, players, questions, answers, quiz_answers, inflight,
                   shown>>

(* the session update of quiz/generate and the response *)
QuizGenerateUpdate(updated) ==
    /\ pending.quizGenerate # <<>>
    /\ LET inserted == Head(pending.quizGenerate).inserted
           now == Head(pending.quizGenerate).now
           base == Head(pending.quizGenerate).base
       IN /\ session' = IF updated
                          THEN [session EXCEPT
                                  !.phase = "quiz_question",
                                  !.current_quiz_question_id =
                                      RowId(base, FindQuizQuestionId(inserted, 1)),
                                  !.current_quiz_question_number = 1,
                                  !.quiz_started_at = now,
                                  !.question_deadline = now + DeadlineMs]
                          ELSE session
          /\ resp' = [Response("quiz_generate", 200, "")
                        EXCEPT !.quizQuestions = inserted]
    /\ pending' = [pending EXCEPT !.quizGenerate = Tail(@)]
    /\ UNCHANGED <<players, questions, answers, quiz_questions, quiz_answers,
                   inflight, shown>>

(* The generate handlers when other requests are served between their      *)
(* existence check and their insert: pending.generateChecked and           *)
(* pending.quizGenerateChecked count the requests that found no questions  *)
(* and have not inserted yet                                               *)

(* generate-questions up to the existence check (lines 17-53) *)
GenerateCheck(playerId) ==
    /\ IF ~PlayerFound(playerId)
         THEN /\ resp' = Response("generate_questions", 404, "Player not found in game")
              /\ UNCHANGED pending
       ELSE IF ~players[playerId].is_projector
         THEN /\ resp' = Response("generate_questions", 403,
                                  "Only the host can generate questions")
              /\ UNCHANGED pending
       ELSE IF Len(questions) > 0
         THEN /\ resp' = [Response("generate_questions", 200, "")
                            EXCEPT !.questions = OrderBy(questions, "question_number")]
              /\ UNCHANGED pending
       ELSE /\ pending' = [pending EXCEPT !.generateChecked = @ + 1]
            /\ UNCHANGED resp
    /\ UNCHANGED <<session, players, questions, answers, quiz_questions,
                   quiz_answers, inflight, shown>>

(* the call of the model and the insert (lines 55-73) *)
GenerateStore(content, stored) ==
    /\ pending.generateChecked > 0
    /\ IF generateIcebreakerQuestions(content) = Throws
         THEN /\ resp' = Response("generate_questions", 500, "Internal server error")
              /\ pending' = [pending EXCEPT !.generateChecked = @ - 1]
              /\ UNCHANGED questions
       ELSE IF ~stored
         THEN /\ resp' = Response("generate_questions", 500, "Failed to save questions")
              /\ pending' = [pending EXCEPT !.generateChecked = @ - 1]
              /\ UNCHANGED questions
       ELSE LET questionTexts == generateIcebreakerQuestions(content)
                inserted == [i \in 1..Len(questionTexts) |->
                                [question_number |-> i,
                                 question_text |-> questionTexts[i]]]
            IN /\ questions' = questions \o inserted
               /\ pending' = [pending EXCEPT
                      !.generateChecked = @ - 1,
                      !.generate = Append(@, [inserted |-> inserted,
                                              base |-> Len(questions)])]
               /\ UNCHANGED resp
    /\ UNCHANGED <<session, players, answers, quiz_questions, quiz_answers,
                   inflight, shown>>

(* quiz/generate up to the existence check (lines 17-53) *)
QuizGenerateCheck(playerId) ==
    /\ IF ~PlayerFound(playerId)
         THEN /\ resp' = Response("quiz_generate", 404, "Player not found in game")
              /\ UNCHANGED pending
       ELSE IF ~players[playerId].is_projector
         THEN /\ resp' = Response("quiz_generate", 403,
                                  "Only the host can generate quiz questions")
              /\ UNCHANGED pending
       ELSE IF Len(quiz_questions) > 0
         THEN /\ resp' = [Response("quiz_generate", 200, "") EXCEPT
                            !.quizQuestions = OrderBy(quiz_questions, "question_order")]
              /\ UNCHANGED pending
       ELSE /\ pending' = [pending EXCEPT !.quizGenerateChecked = @ + 1]
            /\ UNCHANGED resp
    /\ UNCHANGED <<session, players, questions, answers, quiz_questions,
                   quiz_answers, inflight, shown>>

(* the reads of the players, questions and answers, the calls of the model *)
(* and the insert (lines 55-138)                                           *)
QuizGenerateStore(llm, now, stored) ==
    /\ pending.quizGenerateChecked > 0
    /\ IF NonProjectors = {}
         THEN /\ resp' = Response("quiz_generate", 404, "No players found")
              /\ pending' = [pending EXCEPT !.quizGenerateChecked = @ - 1]
              /\ UNCHANGED quiz_questions
       ELSE IF Len(questions) = 0
         THEN /\ resp' = Response("quiz_generate", 404, "No icebreaker questions found")
              /\ pending' = [pending EXCEPT !.quizGenerateChecked = @ - 1]
              /\ UNCHANGED quiz_questions
       ELSE IF {a \in answers : a.question_id \in DOMAIN questions} = {}
         THEN /\ resp' = Response("quiz_generate", 404, "No icebreaker answers found")
              /\ pending' = [pending EXCEPT !.quizGenerateChecked = @ - 1]
              /\ UNCHANGED quiz_questions
       ELSE LET numAnswers == [p \in NonProjectors |->
                                  Cardinality({a \in answers : a.player_id = p})]
                playersWithAnswers ==
                    SeqOfSet({p \in NonProjectors : numAnswers[p] > 0})
            IN IF playersWithAnswers = <<>>
                 THEN /\ resp' = Response("quiz_generate", 400,
                                          "No player answers to base quiz on")
                      /\ pending' = [pending EXCEPT !.quizGenerateChecked = @ - 1]
                      /\ UNCHANGED quiz_questions
               ELSE IF ~stored
                 THEN /\ resp' = Response("quiz_generate", 500,
                                          "Failed to save quiz questions")
                      /\ pending' = [pending EXCEPT !.quizGenerateChecked = @ - 1]
                      /\ UNCHANGED quiz_questions
               ELSE LET quizQuestions ==
                            generateQuizQuestions(playersWithAnswers, numAnswers, llm)
                        inserted == [i \in 1..Len(quizQuestions) |->
                            [about_player_id |-> quizQuestions[i].aboutPlayerId,
                             correct_answer |-> quizQuestions[i].correctAnswer,
                             question_order |-> i]]
                    IN /\ quiz_questions' = quiz_questions \o inserted
                       /\ pending' = [pending EXCEPT
                              !.quizGenerateChecked = @ - 1,
                              !.quizGenerate =
                                  Append(@, [inserted |-> inserted, now |-> now,
                                             base |-> Len(quiz_questions)])]
                       /\ UNCHANGED resp
    /\ UNCHANGED <<session, players, questions, answers, quiz_answers, inflight,
                   shown>>

----------------------------------------------------------------------------
(* POST /api/game/quiz/answer *)

(* the checks before the existence check: the error response, or status 0  *)
(* when the request passes them                                            *)
QuizAnswerValidate(quizQuestionId, playerId, selectedOption) ==
    IF quizQuestionId = NULL \/ playerId = NULL \/ selectedOption = ""
      THEN Response("quiz_answer", 400,
                    "Quiz question ID, player ID, and selected option required")
    ELSE IF selectedOption \notin Options
      THEN Response("quiz_answer", 400, "Invalid option. Must be A, B, C, or D")
    ELSE IF ~PlayerFound(playerId)
      THEN Response("quiz_answer", 404, "Player not found")
    ELSE IF quizQuestionId \notin DOMAIN quiz_questions
      THEN Response("quiz_answer", 404, "Quiz question not found")
    ELSE Response("quiz_answer", 0, "")

(* .eq('quiz_question_id', q).eq('player_id', p).single() *)
ExistingAnswer(quizQuestionId, playerId) ==
    {r \in quiz_answers :
        r.quiz_question_id = quizQuestionId /\ r.player_id = playerId}

AlreadyAnswered(existingAnswer) ==
    [Response("quiz_answer", 400, "Already answered this question")
        EXCEPT !.answer = existingAnswer]

(* NewQuizAnswer taking A for the correct label of every question *)
NewQuizAnswerMutC22(quizQuestionId, playerId, selectedOption) ==
    [quiz_question_id |-> quizQuestionId, player_id |-> playerId,
     selected_option |-> selectedOption,
     is_correct |-> (selectedOption = "A")]

NewQuizAnswer(quizQuestionId, playerId, selectedOption) ==
    [quiz_question_id |-> quizQuestionId, player_id |-> playerId,
     selected_option |-> selectedOption,
     is_correct |-> (selectedOption = quiz_questions[quizQuestionId].correct_answer)]

(* insert into quiz_answers under UNIQUE(quiz_question_id, player_id):     *)
(* the table after the insert and the handler's response                   *)
InsertQuizAnswer(row) ==
    IF ExistingAnswer(row.quiz_question_id, row.player_id) # {}
      THEN [table |-> quiz_answers,
            resp |-> Response("quiz_answer", 500, "Failed to save answer")]
      ELSE [table |-> quiz_answers \cup {row},
            resp |-> [Response("quiz_answer", 200, "") EXCEPT !.answer = row]]

(* SubmitQuizAnswer writing with upsert, as the icebreaker answer does *)
SubmitQuizAnswerMutC9(quizQuestionId, playerId, selectedOption) ==
    /\ inflight = {}
    /\ LET invalid == QuizAnswerValidate(quizQuestionId, playerId, selectedOption)
           row == NewQuizAnswer(quizQuestionId, playerId, selectedOption)
       IN IF invalid.status # 0
            THEN /\ resp' = invalid
                 /\ UNCHANGED quiz_answers
          ELSE /\ quiz_answers' =
                     (quiz_answers \ ExistingAnswer(quizQuestionId, playerId)) \cup {row}
               /\ resp' = [Response("quiz_answer", 200, "") EXCEPT !.answer = row]
    /\ UNCHANGED <<session, players, questions, answers, quiz_questions,
                   inflight, pending, shown>>

(* the handler served without another request in between *)
SubmitQuizAnswer(quizQuestionId, playerId, selectedOption) ==
    /\ inflight = {}
    /\ LET invalid == QuizAnswerValidate(quizQuestionId, playerId, selectedOption)
           existing == ExistingAnswer(quizQuestionId, playerId)
       IN IF invalid.status # 0
            THEN /\ resp' = invalid
                 /\ UNCHANGED quiz_answers
          ELSE IF existing # {}
            THEN /\ resp' = AlreadyAnswered(CHOOSE r \in existing : TRUE)
                 /\ UNCHANGED quiz_answers
          ELSE LET ins == InsertQuizAnswer(
                            NewQuizAnswer(quizQuestionId, playerId, selectedOption))
               IN /\ quiz_answers' = ins.table
                  /\ resp' = ins.resp
    /\ UNCHANGED <<session, players, questions, answers, quiz_questions,
                   inflight, pending, shown>>

(* the handler up to and including the existence check (lines 10-59) *)
QuizAnswerCheck(quizQuestionId, playerId, selectedOption) ==
    /\ LET invalid == QuizAnswerValidate(quizQuestionId, playerId, selectedOption)
           existing == ExistingAnswer(quizQuestionId, playerId)
       IN IF invalid.status # 0
            THEN /\ resp' = invalid
                 /\ UNCHANGED inflight
          ELSE IF existing # {}
            THEN /\ resp' = AlreadyAnswered(CHOOSE r \in existing : TRUE)
                 /\ UNCHANGED inflight
          ELSE /\ NewQuizAnswer(quizQuestionId, playerId, selectedOption) \notin inflight
               /\ inflight' = inflight \cup
                     {NewQuizAnswer(quizQuestionId, playerId, selectedOption)}
               /\ UNCHANGED resp
    /\ UNCHANGED <<session, players, questions, answers, quiz_questions,
                   quiz_answers, pending, shown>>

(* the rest of the handler: the insert and the response (lines 61-82) *)
QuizAnswerInsert(req) ==
    /\ req \in inflight
    /\ inflight' = inflight \ {req}
    /\ quiz_answers' = InsertQuizAnswer(req).table
    /\ resp' = InsertQuizAnswer(req).resp
    /\ UNCHANGED <<session, players, questions, answers, quiz_questions,
                   pending, shown>>

----------------------------------------------------------------------------
(* POST /api/game/quiz/next *)

(* PlayerScoreChange with the is_correct test of the regular player dropped *)
PlayerScoreChangeMutC4(p, aboutPlayerId, qanswers) ==
    LET playerAnswer == {a \in qanswers : a.player_id = p}
        isCorrect == \E a \in playerAnswer : a.is_correct
    IN IF p = aboutPlayerId
         THEN IF playerAnswer # {}
                THEN IF isCorrect
                       THEN << [playerId |-> p, change |-> 2,
                                reason |-> "Correctly answered about yourself"] >>
                       ELSE << [playerId |-> p, change |-> -1,
                                reason |-> "Incorrectly answered about yourself"] >>
                ELSE << [playerId |-> p, change |-> -1,
                         reason |-> "Ran out of time on your own question"] >>
         ELSE IF playerAnswer # {}
                THEN << [playerId |-> p, change |-> 1, reason |-> "Correct guess"] >>
                ELSE <<>>

(* the entry the loop over allPlayers pushes for player p, <<>> when none *)
PlayerScoreChange(p, aboutPlayerId, qanswers) ==
    LET playerAnswer == {a \in qanswers : a.player_id = p}
        isCorrect == \E a \in playerAnswer : a.is_correct
    IN IF p = aboutPlayerId
         THEN IF playerAnswer # {}
                THEN IF isCorrect
                       THEN << [playerId |-> p, change |-> 2,
                                reason |-> "Correctly answered about yourself"] >>
                       ELSE << [playerId |-> p, change |-> -1,
                                reason |-> "Incorrectly answered about yourself"] >>
                ELSE << [playerId |-> p, change |-> -1,
                         reason |-> "Ran out of time on your own question"] >>
         ELSE IF playerAnswer # {} /\ isCorrect
                THEN << [playerId |-> p, change |-> 1, reason |-> "Correct guess"] >>
                ELSE <<>>

RECURSIVE ScoreLoop(_, _, _)
ScoreLoop(allPlayers, aboutPlayerId, qanswers) ==
    IF allPlayers = <<>> THEN <<>>
    ELSE PlayerScoreChange(Head(allPlayers), aboutPlayerId, qanswers)
            \o ScoreLoop(Tail(allPlayers), aboutPlayerId, qanswers)

(* CalcScoreChanges with the penalty of the universal timeout left out *)
CalcScoreChangesMutC5(currentQuestion, qanswers, allPlayers) ==
    LET aboutPlayerId == currentQuestion.about_player_id
        answeredPlayerIds == {a.player_id : a \in qanswers}
        allTimedOut == \A p \in allPlayers : p \notin answeredPlayerIds
    IN IF allTimedOut
         THEN <<>>
         ELSE ScoreLoop(SeqOfSet(allPlayers), aboutPlayerId, qanswers)

(* lines 77-137: scoreChanges for the current question, from the answers   *)
(* and the non-projector roster read before                                 *)
CalcScoreChanges(currentQuestion, qanswers, allPlayers) ==
    LET aboutPlayerId == currentQuestion.about_player_id
        answeredPlayerIds == {a.player_id : a \in qanswers}
        allTimedOut == \A p \in allPlayers : p \notin answeredPlayerIds
    IN IF allTimedOut
         THEN << [playerId |-> aboutPlayerId, change |-> -1,
                  reason |-> "Everyone ran out of time"] >>
         ELSE ScoreLoop(SeqOfSet(allPlayers), aboutPlayerId, qanswers)

(* ApplyScoreChanges without Math.max(0, ...) *)
RECURSIVE ApplyScoreChangesMutC6(_, _, _, _)
ApplyScoreChangesMutC6(table, scoreChanges, allPlayers, snapshot) ==
    IF scoreChanges = <<>> THEN table
    ELSE LET change == Head(scoreChanges)
             written == IF change.playerId \in allPlayers
                          THEN [table EXCEPT ![change.playerId].score =
                                   snapshot[change.playerId].score + change.change]
                          ELSE table
         IN ApplyScoreChangesMutC6(written, Tail(scoreChanges), allPlayers, snapshot)

(* ApplyScoreChanges leaving the loop after the first write *)
ApplyScoreChangesMutC7(table, scoreChanges, allPlayers, snapshot) ==
    IF scoreChanges = <<>> THEN table
    ELSE LET change == Head(scoreChanges)
         IN IF change.playerId \in allPlayers
              THEN [table EXCEPT ![change.playerId].score =
                       Max(0, snapshot[change.playerId].score + change.change)]
              ELSE table

(* lines 139-148: every write takes the score of the roster snapshot *)
RECURSIVE ApplyScoreChanges(_, _, _, _)
ApplyScoreChanges(table, scoreChanges, allPlayers, snapshot) ==
    IF scoreChanges = <<>> THEN table
    ELSE LET change == Head(scoreChanges)
             written == IF change.playerId \in allPlayers
                          THEN [table EXCEPT ![change.playerId].score =
                                   Max(0, snapshot[change.playerId].score + change.change)]
                          ELSE table
         IN ApplyScoreChanges(written, Tail(scoreChanges), allPlayers, snapshot)

(* ShowResultsPrecondition of a handler that serves show_results once per question *)
ShowResultsPreconditionMutC8(currentQuestionId) ==
    currentQuestionId # NULL /\ session.phase = "quiz_question"

(* lines 58-62: the only condition show_results puts on the session *)
ShowResultsPrecondition(currentQuestionId) == currentQuestionId # NULL

(* QuizNext leaving the deadline in place at the end of the quiz *)
QuizNextMutC20(playerId, action, now) ==
    /\ IF ~PlayerFound(playerId)
         THEN /\ resp' = ActionResponse("quiz_next", action, 404, "Player not found in game")
              /\ UNCHANGED <<session, players, shown>>
       ELSE IF ~players[playerId].is_projector
         THEN /\ resp' = ActionResponse("quiz_next", action, 403, "Only the host can advance the quiz")
              /\ UNCHANGED <<session, players, shown>>
       ELSE IF Len(quiz_questions) = 0
         THEN /\ resp' = ActionResponse("quiz_next", action, 404, "No quiz questions found")
              /\ UNCHANGED <<session, players, shown>>
       ELSE LET totalQuestions == Len(quiz_questions)
                currentQuestionNumber == session.current_quiz_question_number
                currentQuestionId ==
                    FindQuizQuestionId(quiz_questions, currentQuestionNumber)
                nextQuestionNumber == currentQuestionNumber + 1
            IN IF action = "show_results"
                 THEN IF ~ShowResultsPrecondition(currentQuestionId)
                        THEN /\ resp' = ActionResponse("quiz_next", action, 404,
                                                 "Current question not found")
                             /\ UNCHANGED <<session, players, shown>>
                        ELSE LET qanswers == {a \in quiz_answers :
                                     a.quiz_question_id = currentQuestionId}
                                 allPlayers == NonProjectors
                                 scoreChanges == CalcScoreChanges(
                                     quiz_questions[currentQuestionId], qanswers, allPlayers)
                             IN /\ shown' = shown + 1
                                /\ players' = ApplyScoreChanges(players, scoreChanges,
                                                                allPlayers, players)
                                /\ session' = [session EXCEPT !.phase = "quiz_results"]
                                /\ resp' = [ActionResponse("quiz_next", action, 200, "") EXCEPT
                                               !.action = "show_results",
                                               !.scoreChanges = scoreChanges]
               ELSE IF action = "next_question"
                 THEN IF nextQuestionNumber > totalQuestions
                        THEN /\ session' = [session EXCEPT
                                   !.phase = "game_over",
                                   !.current_quiz_question_number = totalQuestions]
                             /\ resp' = [ActionResponse("quiz_next", action, 200, "")
                                           EXCEPT !.action = "game_over"]
                             /\ UNCHANGED <<players, shown>>
                        ELSE /\ session' = [session EXCEPT
                                   !.phase = "quiz_question",
                                   !.current_quiz_question_id =
                                       FindQuizQuestionId(quiz_questions, nextQuestionNumber),
                                   !.current_quiz_question_number = nextQuestionNumber,
                                   !.question_deadline = now + DeadlineMs]
                             /\ resp' = [ActionResponse("quiz_next", action, 200, "")
                                           EXCEPT !.action = "next_question"]
                             /\ UNCHANGED <<players, shown>>
               ELSE /\ resp' = ActionResponse("quiz_next", action, 400, "Invalid action")
                    /\ UNCHANGED <<session, players, shown>>
    /\ UNCHANGED <<questions, answers, quiz_questions, quiz_answers, inflight,
                   pending>>

(* QuizNext whose next_question after the last question keeps the phase *)
QuizNextMutC30(playerId, action, now) ==
    /\ IF ~PlayerFound(playerId)
         THEN /\ resp' = ActionResponse("quiz_next", action, 404, "Player not found in game")
              /\ UNCHANGED <<session, players, shown>>
       ELSE IF ~players[playerId].is_projector
         THEN /\ resp' = ActionResponse("quiz_next", action, 403, "Only the host can advance the quiz")
              /\ UNCHANGED <<session, players, shown>>
       ELSE IF Len(quiz_questions) = 0
         THEN /\ resp' = ActionResponse("quiz_next", action, 404, "No quiz questions found")
              /\ UNCHANGED <<session, players, shown>>
       ELSE LET totalQuestions == Len(quiz_questions)
                currentQuestionNumber == session.current_quiz_question_number
                currentQuestionId ==
                    FindQuizQuestionId(quiz_questions, currentQuestionNumber)
                nextQuestionNumber == currentQuestionNumber + 1
            IN IF action = "show_results"
                 THEN IF ~ShowResultsPrecondition(currentQuestionId)
                        THEN /\ resp' = ActionResponse("quiz_next", action, 404,
                                                 "Current question not found")
                             /\ UNCHANGED <<session, players, shown>>
                        ELSE LET qanswers == {a \in quiz_answers :
                                     a.quiz_question_id = currentQuestionId}
                                 allPlayers == NonProjectors
                                 scoreChanges == CalcScoreChanges(
                                     quiz_questions[currentQuestionId], qanswers, allPlayers)
                             IN /\ shown' = shown + 1
                                /\ players' = ApplyScoreChanges(players, scoreChanges,
                                                                allPlayers, players)
                                /\ session' = [session EXCEPT !.phase = "quiz_results"]
                                /\ resp' = [ActionResponse("quiz_next", action, 200, "") EXCEPT
                                               !.action = "show_results",
                                               !.scoreChanges = scoreChanges]
               ELSE IF action = "next_question"
                 THEN IF nextQuestionNumber > totalQuestions
                        THEN /\ session' = [session EXCEPT
                                   !.phase = "quiz_results",
                                   !.current_quiz_question_number = totalQuestions,
                                   !.question_deadline = NULL]
                             /\ resp' = [ActionResponse("quiz_next", action, 200, "")
                                           EXCEPT !.action = "game_over"]
                             /\ UNCHANGED <<players, shown>>
                        ELSE /\ session' = [session EXCEPT
                                   !.phase = "quiz_question",
                                   !.current_quiz_question_id =
                                       FindQuizQuestionId(quiz_questions, nextQuestionNumber),
                                   !.current_quiz_question_number = nextQuestionNumber,
                                   !.question_deadline = now + DeadlineMs]
                             /\ resp' = [ActionResponse("quiz_next", action, 200, "")
                                           EXCEPT !.action = "next_question"]
                             /\ UNCHANGED <<players, shown>>
               ELSE /\ resp' = ActionResponse("quiz_next", action, 400, "Invalid action")
                    /\ UNCHANGED <<session, players, shown>>
    /\ UNCHANGED <<questions, answers, quiz_questions, quiz_answers, inflight,
                   pending>>

QuizNext(playerId, action, now) ==
    /\ IF ~PlayerFound(playerId)
         THEN /\ resp' = ActionResponse("quiz_next", action, 404, "Player not found in game")
              /\ UNCHANGED <<session, players, shown>>
       ELSE IF ~players[playerId].is_projector
         THEN /\ resp' = ActionResponse("quiz_next", action, 403, "Only the host can advance the quiz")
              /\ UNCHANGED <<session, players, shown>>
       ELSE IF Len(quiz_questions) = 0
         THEN /\ resp' = ActionResponse("quiz_next", action, 404, "No quiz questions found")
              /\ UNCHANGED <<session, players, shown>>
       ELSE LET totalQuestions == Len(quiz_questions)
                currentQuestionNumber == session.current_quiz_question_number
                currentQuestionId ==
                    FindQuizQuestionId(quiz_questions, currentQuestionNumber)
                nextQuestionNumber == currentQuestionNumber + 1
            IN IF action = "show_results"
                 THEN IF ~ShowResultsPrecondition(currentQuestionId)
                        THEN /\ resp' = ActionResponse("quiz_next", action, 404,
                                                 "Current question not found")
                             /\ UNCHANGED <<session, players, shown>>
                        ELSE LET qanswers == {a \in quiz_answers :
                                     a.quiz_question_id = currentQuestionId}
                                 allPlayers == NonProjectors
                                 scoreChanges == CalcScoreChanges(
                                     quiz_questions[currentQuestionId], qanswers, allPlayers)
                             IN /\ shown' = shown + 1
                                /\ players' = ApplyScoreChanges(players, scoreChanges,
                                                                allPlayers, players)
                                /\ session' = [session EXCEPT !.phase = "quiz_results"]
                                /\ resp' = [ActionResponse("quiz_next", action, 200, "") EXCEPT
                                               !.action = "show_results",
                                               !.scoreChanges = scoreChanges]
               ELSE IF action = "next_question"
                 THEN IF nextQuestionNumber > totalQuestions
                        THEN /\ session' = [session EXCEPT
                                   !.phase = "game_over",
                                   !.current_quiz_question_number = totalQuestions,
                                   !.question_deadline = NULL]
                             /\ resp' = [ActionResponse("quiz_next", action, 200, "")
                                           EXCEPT !.action = "game_over"]
                             /\ UNCHANGED <<players, shown>>
                        ELSE /\ session' = [session EXCEPT
                                   !.phase = "quiz_question",
                                   !.current_quiz_question_id =
                                       FindQuizQuestionId(quiz_questions, nextQuestionNumber),
                                   !.current_quiz_question_number = nextQuestionNumber,
                                   !.question_deadline = now + DeadlineMs]
                             /\ resp' = [ActionResponse("quiz_next", action, 200, "")
                                           EXCEPT !.action = "next_question"]
                             /\ UNCHANGED <<players, shown>>
               ELSE /\ resp' = ActionResponse("quiz_next", action, 400, "Invalid action")
                    /\ UNCHANGED <<session, players, shown>>
    /\ UNCHANGED <<questions, answers, quiz_questions, quiz_answers, inflight,
                   pending>>

(* show_results when other requests are served between its reads and its   *)
(* writes.  pending.showResults holds, for every request that has read,    *)
(* the current question, the answers and the roster it read;               *)
(* pending.reported is the history of the scoreChanges of the successful   *)
(* show_results responses.                                                 *)

(* lines 17-75: the checks and the reads of the session, the quiz          *)
(* questions, the answers of the current question and the roster           *)
ShowResultsRead(playerId) ==
    /\ IF ~PlayerFound(playerId)
         THEN /\ resp' = ActionResponse("quiz_next", "show_results", 404,
                                        "Player not found in game")
              /\ UNCHANGED pending
       ELSE IF ~players[playerId].is_projector
         THEN /\ resp' = ActionResponse("quiz_next", "show_results", 403,
                                        "Only the host can advance the quiz")
              /\ UNCHANGED pending
       ELSE IF Len(quiz_questions) = 0
         THEN /\ resp' = ActionResponse("quiz_next", "show_results", 404,
                                        "No quiz questions found")
              /\ UNCHANGED pending
       ELSE LET currentQuestionId ==
                    FindQuizQuestionId(quiz_questions,
                                       session.current_quiz_question_number)
            IN IF ~ShowResultsPrecondition(currentQuestionId)
                 THEN /\ resp' = ActionResponse("quiz_next", "show_results", 404,
                                                "Current question not found")
                      /\ UNCHANGED pending
               ELSE /\ pending' = [pending EXCEPT !.showResults = Append(@,
                          [currentQuestionId |-> currentQuestionId,
                           answers |-> {a \in quiz_answers :
                                           a.quiz_question_id = currentQuestionId},
                           allPlayers |-> NonProjectors,
                           snapshot |-> players])]
                    /\ UNCHANGED resp
    /\ UNCHANGED <<session, players, questions, answers, quiz_questions,
                   quiz_answers, inflight, shown>>

(* lines 77-167: the score changes computed from what request i read, the  *)
(* writes of the scores, the update of the phase and the response          *)
ShowResultsWrite(i) ==
    /\ i \in DOMAIN pending.showResults
    /\ LET read == pending.showResults[i]
           scoreChanges == CalcScoreChanges(quiz_questions[read.currentQuestionId],
                                            read.answers, read.allPlayers)
       IN /\ shown' = shown + 1
          /\ players' = ApplyScoreChanges(players, scoreChanges, read.allPlayers,
                                          read.snapshot)
          /\ session' = [session EXCEPT !.phase = "quiz_results"]
          /\ resp' = [ActionResponse("quiz_next", "show_results", 200, "") EXCEPT
                         !.action = "show_results",
                         !.scoreChanges = scoreChanges]
          /\ pending' = [pending EXCEPT
                 !.showResults = [k \in 1..(Len(@) - 1) |->
                                     IF k < i THEN @[k] ELSE @[k + 1]],
                 !.reported = Append(@, scoreChanges)]
    /\ UNCHANGED <<questions, answers, quiz_questions, quiz_answers, inflight>>

----------------------------------------------------------------------------
(* The requests the clients issue.  The handlers above are served one at  *)
(* a time; the bounds of the model limit the requests that are issued.     *)

Texts == {<<"x">>}
Labels == {"A", "B", "E"}
Times == {1000}
LaterTimes == {30000}
LLMIcebreakers == {<<"q1", "q2", "q3">>}
LLMQuiz == {<<>>, <<"B", "A">>}

CanJoin == Len(players) - 1 < MaxJoin
CanAnswer == Cardinality(answers) < MaxAnswerRows
CanQuizAnswer == Cardinality(quiz_answers) + Cardinality(inflight) < MaxQuizAnswerRows
CanShow == shown < MaxShown

JoinReq == CanJoin /\ Join
        /\ UNCHANGED <<clock, client>>
StartReq == Start(HostId)
        /\ UNCHANGED <<clock, client>>
GenerateQuestionsReq == \E content \in LLMIcebreakers : GenerateQuestions(HostId, content)
        /\ UNCHANGED <<clock, client>>
ShowAnswersReq == NextQuestion(HostId, "show_answers")
        /\ UNCHANGED <<clock, client>>
NextQuestionReq == NextQuestion(HostId, "next_question")
        /\ UNCHANGED <<clock, client>>
SubmitAnswerReq ==
    /\ CanAnswer
    /\ quiz_questions = <<>>
    /\ \E q \in DOMAIN questions, p \in DOMAIN players, t \in Texts : SubmitAnswer(q, p, t)
    /\ UNCHANGED <<clock, client>>
QuizGenerateReq ==
    \E llm \in [NonProjectors -> LLMQuiz], now \in Times : QuizGenerate(HostId, llm, now)
        /\ UNCHANGED <<clock, client>>
ShowResultsReq == CanShow /\ \E now \in Times : QuizNext(HostId, "show_results", now)
        /\ UNCHANGED <<clock, client>>
QuizNextQuestionReq ==
    \E now \in LaterTimes : QuizNext(HostId, "next_question", now)
        /\ UNCHANGED <<clock, client>>

(* The session row: every handler that writes it, the host's requests in  *)
(* any order.  quiz_answers is read by show_results for the scores only.   *)
Next ==
    \/ JoinReq
    \/ StartReq
    \/ GenerateQuestionsReq
    \/ ShowAnswersReq
    \/ NextQuestionReq
    \/ SubmitAnswerReq
    \/ QuizGenerateReq
    \/ ShowResultsReq
    \/ QuizNextQuestionReq

Spec == Init /\ [][Next]_vars

(* The quiz round: the handlers that read or write players, quiz_questions *)
(* and quiz_answers.  status, phase and the icebreaker ordinal, which      *)
(* start and next-question write, are read by none of them.  The players   *)
(* join in the lobby, answer the current icebreaker before the quiz is     *)
(* generated and answer the current quiz question; requests that are       *)
(* answered without a write (a repeated generate, a rejected answer) are   *)
(* left to SpecAnswer.                                                     *)
LobbyJoinReq == CanJoin /\ session.phase = "lobby" /\ Join
        /\ UNCHANGED <<clock, client>>
FirstGenerateQuestionsReq == questions = <<>> /\ GenerateQuestionsReq
        /\ UNCHANGED <<clock, client>>
CurrentAnswerReq ==
    /\ CanAnswer
    /\ quiz_questions = <<>>
    /\ session.current_question_id # NULL
    /\ \E p \in DOMAIN players, t \in Texts :
          SubmitAnswer(session.current_question_id, p, t)
    /\ UNCHANGED <<clock, client>>
FirstQuizGenerateReq == quiz_questions = <<>> /\ QuizGenerateReq
        /\ UNCHANGED <<clock, client>>
NewQuizAnswerReq ==
    /\ CanQuizAnswer
    /\ \E p \in DOMAIN players, l \in Labels \cap Options :
          /\ ExistingAnswer(session.current_quiz_question_id, p) = {}
          /\ SubmitQuizAnswer(session.current_quiz_question_id, p, l)
    /\ UNCHANGED <<clock, client>>

NextQuiz ==
    \/ LobbyJoinReq
    \/ FirstGenerateQuestionsReq
    \/ CurrentAnswerReq
    \/ FirstQuizGenerateReq
    \/ NewQuizAnswerReq
    \/ ShowResultsReq
    \/ QuizNextQuestionReq

SpecQuiz == Init /\ [][NextQuiz]_vars

(* Quiz answers, one request at a time: any player, any label, also for a  *)
(* (question, player) that has a row.                                      *)
SubmitQuizAnswerReq ==
    /\ CanQuizAnswer
    /\ \E p \in DOMAIN players, l \in Labels :
          SubmitQuizAnswer(session.current_quiz_question_id, p, l)
    /\ UNCHANGED <<clock, client>>
ResubmitQuizAnswerReq ==
    \E r \in quiz_answers, l \in Labels \cap Options :
        SubmitQuizAnswer(r.quiz_question_id, r.player_id, l)
        /\ UNCHANGED <<clock, client>>

NextAnswer ==
    \/ LobbyJoinReq
    \/ FirstGenerateQuestionsReq
    \/ CurrentAnswerReq
    \/ FirstQuizGenerateReq
    \/ SubmitQuizAnswerReq
    \/ ResubmitQuizAnswerReq
    \/ QuizNextQuestionReq

SpecAnswer == Init /\ [][NextAnswer]_vars

(* Concurrent quiz-answer requests: a request is served in two steps, its  *)
(* existence check and its insert, and other requests run in between.      *)
QuizAnswerCheckReq ==
    /\ CanQuizAnswer
    /\ \E p \in DOMAIN players, l \in Labels :
          QuizAnswerCheck(session.current_quiz_question_id, p, l)
    /\ UNCHANGED <<clock, client>>
QuizAnswerInsertReq == \E req \in inflight : QuizAnswerInsert(req)
        /\ UNCHANGED <<clock, client>>

NextRace ==
    \/ LobbyJoinReq
    \/ FirstGenerateQuestionsReq
    \/ CurrentAnswerReq
    \/ FirstQuizGenerateReq
    \/ QuizAnswerCheckReq
    \/ QuizAnswerInsertReq
    \/ QuizNextQuestionReq

SpecRace == Init /\ [][NextRace]_vars

(* The host-only requests issued by a caller who is not the host: another  *)
(* player of the session, or the host of another session, whose id no      *)
(* player row of this session carries.  The host plays the game as its     *)
(* client does.                                                            *)
OtherHostId == 9
Intruders == NonProjectors \cup {OtherHostId}

IntruderStartReq == \E c \in Intruders : Start(c)
        /\ UNCHANGED <<clock, client>>
IntruderGenerateQuestionsReq ==
    \E c \in Intruders, content \in LLMIcebreakers : GenerateQuestions(c, content)
        /\ UNCHANGED <<clock, client>>
IntruderShowAnswersReq == \E c \in Intruders : NextQuestion(c, "show_answers")
        /\ UNCHANGED <<clock, client>>
IntruderNextQuestionReq == \E c \in Intruders : NextQuestion(c, "next_question")
        /\ UNCHANGED <<clock, client>>
IntruderQuizGenerateReq ==
    \E c \in Intruders, llm \in [NonProjectors -> {<<>>}], now \in Times :
        QuizGenerate(c, llm, now)
        /\ UNCHANGED <<clock, client>>
IntruderShowResultsReq ==
    \E c \in Intruders, now \in Times : QuizNext(c, "show_results", now)
        /\ UNCHANGED <<clock, client>>
IntruderQuizNextQuestionReq ==
    \E c \in Intruders, now \in Times : QuizNext(c, "next_question", now)
        /\ UNCHANGED <<clock, client>>

(* the buttons of the host's page, each offered in one phase *)
PhaseShowAnswersReq == session.phase = "asking" /\ ShowAnswersReq
        /\ UNCHANGED <<clock, client>>
PhaseNextQuestionReq == session.phase = "showing_answers" /\ NextQuestionReq
        /\ UNCHANGED <<clock, client>>
PhaseShowResultsReq == session.phase = "quiz_question" /\ ShowResultsReq
        /\ UNCHANGED <<clock, client>>
PhaseQuizNextQuestionReq == session.phase = "quiz_results" /\ QuizNextQuestionReq
        /\ UNCHANGED <<clock, client>>

NextAuth ==
    \/ LobbyJoinReq
    \/ StartReq
    \/ FirstGenerateQuestionsReq
    \/ PhaseShowAnswersReq
    \/ PhaseNextQuestionReq
    \/ CurrentAnswerReq
    \/ FirstQuizGenerateReq
    \/ PhaseShowResultsReq
    \/ PhaseQuizNextQuestionReq
    \/ IntruderStartReq
    \/ IntruderGenerateQuestionsReq
    \/ IntruderShowAnswersReq
    \/ IntruderNextQuestionReq
    \/ IntruderQuizGenerateReq
    \/ IntruderShowResultsReq
    \/ IntruderQuizNextQuestionReq

SpecAuth == Init /\ [][NextAuth]_vars

(* The session from its creation on: create statement by statement, then  *)
(* the requests of the clients, which learn the game code from the         *)
(* response of create.                                                     *)
Names == {<<>>, <<" ">>, <<"h">>}
Created == resp.op # "" /\ players # <<>>

CreateSessionReq == \E playerName \in Names : CreateSession(playerName)
        /\ UNCHANGED <<clock, client>>
CreateProjectorReq == \E inserted \in BOOLEAN : CreateProjector(inserted)
        /\ UNCHANGED <<clock, client>>
CreatedJoinReq == Created /\ LobbyJoinReq
        /\ UNCHANGED <<clock, client>>
CreatedStartReq == Created /\ StartReq
        /\ UNCHANGED <<clock, client>>
CreatedGenerateQuestionsReq == Created /\ FirstGenerateQuestionsReq
        /\ UNCHANGED <<clock, client>>
CreatedAnswerReq == Created /\ CurrentAnswerReq
        /\ UNCHANGED <<clock, client>>
CreatedNextQuestionReq == Created /\ NextQuestionReq
        /\ UNCHANGED <<clock, client>>

NextCreate ==
    \/ CreateSessionReq
    \/ CreateProjectorReq
    \/ CreatedJoinReq
    \/ CreatedStartReq
    \/ CreatedGenerateQuestionsReq
    \/ CreatedAnswerReq
    \/ CreatedNextQuestionReq

SpecCreate == InitCreate /\ [][NextCreate]_vars

(* Concurrent join requests: a request is served in two steps, its count   *)
(* of the players and its insert, and other requests run in between.       *)
CanJoinRace == Cardinality(NonProjectors) + pending.joins < MaxRaceJoins
JoinCheckReq == CanJoinRace /\ pending.joins < MaxConcurrent /\ JoinCheck
        /\ UNCHANGED <<clock, client>>
JoinInsertReq == JoinInsert
        /\ UNCHANGED <<clock, client>>

NextJoin ==
    \/ JoinCheckReq
    \/ JoinInsertReq
    \/ StartReq
    \/ FirstGenerateQuestionsReq

SpecJoin == Init /\ [][NextJoin]_vars

(* Icebreaker answers of concurrent clients: any player, one of the first  *)
(* questions or no question, texts with and without surrounding blanks or  *)
(* empty; a request is served in two steps, its checks and its upsert.     *)
IceTexts == {<<>>, <<"x">>, <<" ", "y", " ">>}
IceQuestionIds == {NULL, 1, 2}

(* the (question, player) pairs that have a row or a request in flight *)
AnswerPairs ==
    {<<r.question_id, r.player_id>> : r \in answers \cup pending.answers}

CanAnswerPair(q, p) ==
    <<q, p>> \in AnswerPairs \/ Cardinality(AnswerPairs) < MaxAnswerRows
CanCheckAnswer == Cardinality(pending.answers) < MaxConcurrent

AnswerCheckReq ==
    /\ CanCheckAnswer
    /\ \E q \in IceQuestionIds, p \in DOMAIN players, t \in IceTexts :
          CanAnswerPair(q, p) /\ AnswerCheck(q, p, t)
    /\ UNCHANGED <<clock, client>>
AnswerUpsertReq == \E req \in pending.answers : AnswerUpsert(req)
        /\ UNCHANGED <<clock, client>>

NextIce ==
    \/ LobbyJoinReq
    \/ FirstGenerateQuestionsReq
    \/ AnswerCheckReq
    \/ AnswerUpsertReq

SpecIce == Init /\ [][NextIce]_vars

----------------------------------------------------------------------------
(* Specification of the two generators: every roster of up to              *)
(* MaxGenPlayers players, before the icebreaker questions exist or at the  *)
(* end of the icebreaker round with every player having answered the first *)
(* 0..3 questions; the model's output and the store's outcome range over   *)
(* all their kinds, for the first generate request of each kind            *)

(* the call throws, unparsable output, an array of two, an array of three *)
LLMIcebreakersWide == {Throws, <<>>, <<"q1", "q2">>, <<"q1", "q2", "q3">>}
(* per player: failure or empty array, an array of one, an array of three, *)
(* an array whose first correctAnswer is not one of the four labels        *)
LLMQuizWide == {<<>>, <<"C">>, <<"B", "A", "D">>, <<"a", "B">>}

Roster(n) ==
    [i \in 1..(n + 1) |-> [is_projector |-> (i = HostId), score |-> 0]]

(* the questions table after generate-questions stored the fallback set *)
StoredIcebreakers ==
    [i \in 1..NumIcebreakers |->
        [question_number |-> i, question_text |-> FallbackIcebreakers[i]]]

(* every player p answered the questions 1..counts[p] *)
FirstAnswers(counts) ==
    {[question_id |-> q, player_id |-> p, answer_text |-> <<"x">>] :
        <<q, p>> \in {qp \in (1..NumIcebreakers) \X DOMAIN counts :
                         qp[1] <= counts[qp[2]]}}

InitGen ==
    /\ \E n \in 0..MaxGenPlayers :
          /\ players = Roster(n)
          /\ \/ /\ session = [status |-> "playing", phase |-> "lobby",
                              current_question_id |-> NULL,
                              current_question_number |-> 0,
                              current_quiz_question_id |-> NULL,
                              current_quiz_question_number |-> 0,
                              quiz_started_at |-> NULL, question_deadline |-> NULL]
                /\ questions = <<>>
                /\ answers = {}
                /\ resp = Response("start", 200, "")
             \/ /\ session = [status |-> "playing", phase |-> "quiz",
                              current_question_id |-> NumIcebreakers,
                              current_question_number |-> NumIcebreakers,
                              current_quiz_question_id |-> NULL,
                              current_quiz_question_number |-> 0,
                              quiz_started_at |-> NULL, question_deadline |-> NULL]
                /\ questions = StoredIcebreakers
                /\ \E counts \in [2..(n + 1) -> 0..NumIcebreakers] :
                      answers = FirstAnswers(counts)
                /\ resp = [ActionResponse("next-question", "next_question", 200, "")
                             EXCEPT !.action = "quiz_start"]
    /\ quiz_questions = <<>>
    /\ quiz_answers = {}
    /\ inflight = {}
    /\ pending = NoPending
    /\ shown = 0
    /\ clock = 0
    /\ client = NoClient

WideGenerateInsertReq ==
    /\ questions = <<>>
    /\ pending.generate = <<>>
    /\ \E content \in LLMIcebreakersWide, stored \in BOOLEAN :
          GenerateInsert(HostId, content, stored)
    /\ UNCHANGED <<clock, client>>
WideGenerateUpdateReq == \E updated \in BOOLEAN : GenerateUpdate(updated)
        /\ UNCHANGED <<clock, client>>
WideQuizGenerateInsertReq ==
    /\ quiz_questions = <<>>
    /\ pending.quizGenerate = <<>>
    /\ \E llm \in [NonProjectors -> LLMQuizWide], now \in Times, stored \in BOOLEAN :
          QuizGenerateInsert(HostId, llm, now, stored)
    /\ UNCHANGED <<clock, client>>
WideQuizGenerateUpdateReq == \E updated \in BOOLEAN : QuizGenerateUpdate(updated)
        /\ UNCHANGED <<clock, client>>

NextGen ==
    \/ WideGenerateInsertReq
    \/ WideGenerateUpdateReq
    \/ WideQuizGenerateInsertReq
    \/ WideQuizGenerateUpdateReq

SpecGen == InitGen /\ [][NextGen]_vars

----------------------------------------------------------------------------
(* Concurrent generate requests of the host (a second click, a retry, a    *)
(* second tab): up to MaxConcurrent requests of a kind between their       *)
(* existence check and their response                                      *)

GenerateCheckReq ==
    /\ pending.generateChecked + Len(pending.generate) < MaxConcurrent
    /\ GenerateCheck(HostId)
    /\ UNCHANGED <<clock, client>>
GenerateStoreReq == \E content \in LLMIcebreakers : GenerateStore(content, TRUE)
        /\ UNCHANGED <<clock, client>>
GenerateUpdateReq == GenerateUpdate(TRUE)
        /\ UNCHANGED <<clock, client>>
QuizGenerateCheckReq ==
    /\ pending.quizGenerateChecked + Len(pending.quizGenerate) < MaxConcurrent
    /\ QuizGenerateCheck(HostId)
    /\ UNCHANGED <<clock, client>>
QuizGenerateStoreReq ==
    \E llm \in [NonProjectors -> LLMQuiz], now \in Times :
        QuizGenerateStore(llm, now, TRUE)
        /\ UNCHANGED <<clock, client>>
QuizGenerateUpdateReq == QuizGenerateUpdate(TRUE)
        /\ UNCHANGED <<clock, client>>

NextGenRace ==
    \/ GenerateCheckReq
    \/ GenerateStoreReq
    \/ GenerateUpdateReq
    \/ QuizGenerateCheckReq
    \/ QuizGenerateStoreReq
    \/ QuizGenerateUpdateReq

SpecGenRace == InitGen /\ [][NextGenRace]_vars

----------------------------------------------------------------------------
(* Concurrent show_results requests (the call of the countdown and the     *)
(* click of the button) and quiz answers served between the reads and the  *)
(* writes of a show_results request                                        *)

ShowResultsReadReq ==
    /\ shown + Len(pending.showResults) < MaxShown
    /\ Len(pending.showResults) < MaxConcurrent
    /\ session.phase \in {"quiz_question", "quiz_results"}
    /\ ShowResultsRead(HostId)
    /\ UNCHANGED <<clock, client>>
ShowResultsWriteReq == \E i \in DOMAIN pending.showResults : ShowResultsWrite(i)
        /\ UNCHANGED <<clock, client>>
NextQuizQuestionReq ==
    /\ pending.showResults = <<>>
    /\ session.phase = "quiz_results"
    /\ QuizNextQuestionReq
    /\ UNCHANGED <<clock, client>>

NextShow ==
    \/ LobbyJoinReq
    \/ FirstGenerateQuestionsReq
    \/ CurrentAnswerReq
    \/ FirstQuizGenerateReq
    \/ NewQuizAnswerReq
    \/ ShowResultsReadReq
    \/ ShowResultsWriteReq
    \/ NextQuizQuestionReq

SpecShow == Init /\ [][NextShow]_vars

----------------------------------------------------------------------------
(* The host following the script of the game page: start, generate the     *)
(* icebreakers, show the answers of each and move on, generate the quiz    *)
(* once a non-host player has answered, show the results of each quiz      *)
(* question and move on.  Every request of the host is eventually made and *)
(* served; the players join and answer when they like.                     *)

HasAnswered(p) == \E a \in answers : a.player_id = p

ScriptStartReq == session.status = "waiting" /\ StartReq
        /\ UNCHANGED <<clock, client>>
ScriptGenerateQuestionsReq == session.status = "playing" /\ FirstGenerateQuestionsReq
        /\ UNCHANGED <<clock, client>>
ScriptQuizGenerateReq ==
    /\ session.phase = "quiz"
    /\ \E p \in NonProjectors : HasAnswered(p)
    /\ FirstQuizGenerateReq
    /\ UNCHANGED <<clock, client>>
ScriptShowResultsReq ==
    /\ session.phase = "quiz_question"
    /\ \E now \in Times : QuizNext(HostId, "show_results", now)
    /\ UNCHANGED <<clock, client>>

NextScript ==
    \/ LobbyJoinReq
    \/ CurrentAnswerReq
    \/ NewQuizAnswerReq
    \/ ScriptStartReq
    \/ ScriptGenerateQuestionsReq
    \/ PhaseShowAnswersReq
    \/ PhaseNextQuestionReq
    \/ ScriptQuizGenerateReq
    \/ ScriptShowResultsReq
    \/ PhaseQuizNextQuestionReq

(* the two requests of the script that always write when the script makes  *)
(* them: quiz_generate inserts the quiz, show_results counts one more show *)
QuizGenerateDue ==
    /\ session.phase = "quiz"
    /\ quiz_questions = <<>>
    /\ \E p \in NonProjectors : HasAnswered(p)
ShowResultsDue == session.phase = "quiz_question"

(* every request of the script that stays due is eventually served: weak   *)
(* fairness of each, written out for the two whose enabling condition is   *)
(* QuizGenerateDue and ShowResultsDue                                      *)
FairScript ==
    /\ WF_vars(ScriptStartReq)
    /\ WF_vars(ScriptGenerateQuestionsReq)
    /\ WF_vars(PhaseShowAnswersReq)
    /\ WF_vars(PhaseNextQuestionReq)
    /\ WF_vars(PhaseQuizNextQuestionReq)
    /\ ([]<>(~QuizGenerateDue) \/ []<><<ScriptQuizGenerateReq>>_vars)
    /\ ([]<>(~ShowResultsDue) \/ []<><<ScriptShowResultsReq>>_vars)

SpecScript == Init /\ [][NextScript]_vars /\ FairScript

----------------------------------------------------------------------------
(* The game page (GamePage) in one browser, the host's or a player's: its  *)
(* copy of the session row (game), the countdown (timeLeft), the interval  *)
(* of the timer effect (timer), the UPDATE events of the game_sessions     *)
(* subscription that are on their way (feed), the rows read by the poll    *)
(* and the other refetches that are on their way (refresh), its requests   *)
(* to quiz/generate and quiz/next that have not been served (calls) and    *)
(* the responses that are on their way (responses).  The requests are      *)
(* served by the handlers above, one at a time.                            *)

PlayerId == 2
TickMs == DeadlineMs \div 2

IsHost == client.playerId \in DOMAIN players /\ players[client.playerId].is_projector

(* updateTimer (lines 1253-1257): Math.max(0, Math.ceil((deadline - now) / 1000)) *)
Remaining(deadline, now) ==
    IF deadline <= now THEN 0 ELSE (deadline - now + 999) \div 1000

(* the condition of the auto-show effect (line 1272) *)
AutoShow(game, timeLeft) ==
    timeLeft = 0 /\ game.phase = "quiz_question" /\ IsHost

(* a request of the page to quiz/generate or quiz/next; auto is TRUE for   *)
(* the call of the auto-show effect and remaining is the countdown of the  *)
(* question on the page, from its deadline, when the request is issued     *)
Call(action, auto, game) ==
    [action |-> action, auto |-> auto,
     question |-> game.current_quiz_question_number,
     remaining |-> IF game.question_deadline = NULL THEN 0
                   ELSE Remaining(game.question_deadline, clock)]

(* The page after a render with the new game and timeLeft, its effects     *)
(* run (lines 1241-1276).  The timer effect runs when the phase or the     *)
(* deadline changed: it clears the interval and, in phase quiz_question    *)
(* with a deadline, calls updateTimer, which queues setTimeLeft, and sets  *)
(* the interval.  The auto-show effect runs when timeLeft or the phase     *)
(* changed, with the timeLeft of this render, and calls                    *)
(* handleShowQuizResults, which clears the interval and issues the         *)
(* request.  The queued setTimeLeft renders again and the auto-show        *)
(* effect runs with the new timeLeft.                                      *)
Render(game, timeLeft) ==
    LET timerRuns == \/ game.phase # client.game.phase
                     \/ game.question_deadline # client.game.question_deadline
        counting == game.phase = "quiz_question" /\ game.question_deadline # NULL
        queued == IF timerRuns /\ counting
                    THEN Remaining(game.question_deadline, clock)
                    ELSE timeLeft
        first == /\ (timeLeft # client.timeLeft \/ game.phase # client.game.phase)
                 /\ AutoShow(game, timeLeft)
        second == queued # timeLeft /\ AutoShow(game, queued)
    IN [client EXCEPT
          !.game = game,
          !.timeLeft = queued,
          !.timer = (IF timerRuns THEN counting ELSE @) /\ ~first /\ ~second,
          !.calls = IF first \/ second
                      THEN @ \cup {Call("show_results", TRUE, game)}
                      ELSE @]

(* the UPDATE event of a changed session row, published to the page; the   *)
(* feed holds at most MaxFeed events and an event published to a full feed *)
(* is lost                                                                 *)
Publish(feed, old, new) ==
    IF new # old /\ Cardinality(feed) < MaxFeed THEN feed \cup {new} ELSE feed

(* Date.now() advances *)
Tick ==
    /\ clock < MaxTicks * TickMs
    /\ clock' = clock + TickMs
    /\ UNCHANGED <<session, players, questions, answers, quiz_questions,
                   quiz_answers, inflight, pending, shown, resp, client>>

(* the callback of setInterval(updateTimer, 100) (lines 1253-1260) *)
UpdateTimer ==
    /\ client.timer
    /\ client' = Render(client.game,
                        Remaining(client.game.question_deadline, clock))
    /\ UNCHANGED <<session, players, questions, answers, quiz_questions,
                   quiz_answers, inflight, pending, shown, resp, clock>>

(* the callback of the game_sessions UPDATE subscription (lines 1393-1408): *)
(* setGame(payload.new).  The event is delivered again later when again is *)
(* TRUE.                                                                   *)
DeliverEvent(event, again) ==
    /\ event \in client.feed
    /\ client' = [Render(event, client.timeLeft) EXCEPT
                     !.wrote = "subscription",
                     !.feed = IF again THEN @ ELSE @ \ {event}]
    /\ UNCHANGED <<session, players, questions, answers, quiz_questions,
                   quiz_answers, inflight, pending, shown, resp, clock>>

(* an event that is never delivered *)
LoseEvent(event) ==
    /\ event \in client.feed
    /\ client' = [client EXCEPT !.feed = @ \ {event}]
    /\ UNCHANGED <<session, players, questions, answers, quiz_questions,
                   quiz_answers, inflight, pending, shown, resp, clock>>

(* the callback of setInterval(..., 3000) up to the read of the session    *)
(* row (lines 1475-1487)                                                   *)
PollFetch ==
    /\ client.game # NoSession
    /\ Cardinality(client.refresh) < MaxFeed
    /\ client' = [client EXCEPT !.refresh = @ \cup {session}]
    /\ UNCHANGED <<session, players, questions, answers, quiz_questions,
                   quiz_answers, inflight, pending, shown, resp, clock>>

(* PollApply without setGame(freshGame) *)
PollApplyMutC32(freshGame) ==
    /\ freshGame \in client.refresh
    /\ client' = [client EXCEPT !.wrote = "poll", !.refresh = @ \ {freshGame}]
    /\ UNCHANGED <<session, players, questions, answers, quiz_questions,
                   quiz_answers, inflight, pending, shown, resp, clock>>

(* the row read arrives: setGame(freshGame) (lines 1488-1489) *)
PollApply(freshGame) ==
    /\ freshGame \in client.refresh
    /\ client' = [Render(freshGame, client.timeLeft) EXCEPT
                     !.wrote = "poll",
                     !.refresh = @ \ {freshGame}]
    /\ UNCHANGED <<session, players, questions, answers, quiz_questions,
                   quiz_answers, inflight, pending, shown, resp, clock>>

(* the host's buttons: Start Quiz in phase quiz (line 1699), Show Results  *)
(* in phase quiz_question (line 1784), Next in phase quiz_results (line    *)
(* 1929), up to the fetch                                                  *)
Click(action) ==
    /\ IsHost
    /\ Cardinality(client.calls) + Cardinality(client.responses) < MaxCalls
    /\ client.game.phase = (CASE action = "quiz_generate" -> "quiz"
                              [] action = "show_results" -> "quiz_question"
                              [] action = "next_question" -> "quiz_results")
    /\ client' = [client EXCEPT !.calls = @ \cup {Call(action, FALSE, client.game)}]
    /\ UNCHANGED <<session, players, questions, answers, quiz_questions,
                   quiz_answers, inflight, pending, shown, resp, clock>>

(* a request of the page is served; the response carries the updated row *)
Serve(call) ==
    /\ call \in client.calls
    /\ CASE call.action = "quiz_generate" ->
              \E llm \in [NonProjectors -> LLMQuiz] :
                  QuizGenerate(client.playerId, llm, clock)
         [] call.action = "show_results" ->
              CanShow /\ QuizNext(client.playerId, "show_results", clock)
         [] call.action = "next_question" ->
              QuizNext(client.playerId, "next_question", clock)
    /\ client' = [client EXCEPT
          !.calls = @ \ {call},
          !.feed = Publish(@, session, session'),
          !.responses = @ \cup {[action |-> call.action,
                                 ok |-> resp'.status = 200,
                                 game |-> session']}]
    /\ UNCHANGED clock

(* the same requests issued by the host's page when this page is a         *)
(* player's: this page sees the events only                                *)
HostServed(action) ==
    /\ ~IsHost
    /\ CASE action = "quiz_generate" ->
              /\ session.phase = "quiz"
              /\ \E llm \in [NonProjectors -> LLMQuiz] :
                    QuizGenerate(HostId, llm, clock)
         [] action = "show_results" ->
              /\ session.phase = "quiz_question"
              /\ CanShow
              /\ QuizNext(HostId, "show_results", clock)
         [] action = "next_question" ->
              /\ session.phase = "quiz_results"
              /\ QuizNext(HostId, "next_question", clock)
    /\ client' = [client EXCEPT !.feed = Publish(@, session, session')]
    /\ UNCHANGED clock

(* the rest of handleStartQuiz (lines 1040-1055), handleShowQuizResults    *)
(* (lines 1113-1120) and handleNextQuizQuestion (lines 1153-1165) when the *)
(* response arrives.  The state updates of one handler are rendered        *)
(* together.                                                               *)
Receive(response) ==
    /\ response \in client.responses
    /\ client' =
         [(IF ~response.ok THEN client
           ELSE IF response.action = "quiz_generate"
             THEN [client EXCEPT !.refresh =
                      IF Cardinality(@) < MaxFeed THEN @ \cup {session} ELSE @]
           ELSE IF response.action = "show_results"
             THEN [Render(response.game, client.timeLeft) EXCEPT !.wrote = "response"]
           ELSE [Render(response.game, 20) EXCEPT !.wrote = "response"])
          EXCEPT !.responses = @ \ {response}]
    /\ UNCHANGED <<session, players, questions, answers, quiz_questions,
                   quiz_answers, inflight, pending, shown, resp, clock>>

Actions == {"quiz_generate", "show_results", "next_question"}

(* the page has loaded (loadGame, lines 1307-1324) at the end of the       *)
(* icebreaker round of a session with one player, who answered the first   *)
(* two questions                                                           *)
InitClient ==
    /\ session = [status |-> "playing", phase |-> "quiz",
                  current_question_id |-> NumIcebreakers,
                  current_question_number |-> NumIcebreakers,
                  current_quiz_question_id |-> NULL,
                  current_quiz_question_number |-> 0,
                  quiz_started_at |-> NULL, question_deadline |-> NULL]
    /\ players = Roster(1)
    /\ questions = StoredIcebreakers
    /\ answers = FirstAnswers([p \in {PlayerId} |-> QUESTIONS_PER_PLAYER])
    /\ quiz_questions = <<>>
    /\ quiz_answers = {}
    /\ inflight = {}
    /\ pending = NoPending
    /\ shown = 0
    /\ resp = [ActionResponse("next-question", "next_question", 200, "")
                 EXCEPT !.action = "quiz_start"]
    /\ clock \in Times
    /\ \E id \in {HostId, PlayerId} :
          client = [NoClient EXCEPT !.playerId = id, !.game = session,
                                    !.wrote = "loadGame"]

DeliverEventReq == \E event \in client.feed, again \in BOOLEAN : DeliverEvent(event, again)
LoseEventReq == \E event \in client.feed : LoseEvent(event)
PollApplyReq == \E freshGame \in client.refresh : PollApply(freshGame)
ClickReq == \E action \in Actions : Click(action)
ServeReq == \E call \in client.calls : Serve(call)
HostServedReq == \E action \in Actions : HostServed(action)
ReceiveReq == \E response \in client.responses : Receive(response)

NextClient ==
    \/ Tick
    \/ UpdateTimer
    \/ DeliverEventReq
    \/ LoseEventReq
    \/ PollFetch
    \/ PollApplyReq
    \/ ClickReq
    \/ ServeReq
    \/ HostServedReq
    \/ ReceiveReq

SpecClient == InitClient /\ [][NextClient]_vars

(* setInterval calls the poll every 3 seconds and its read of the session  *)
(* row is answered                                                         *)
FairPoll == WF_vars(PollFetch) /\ WF_vars(PollApplyReq)

(* The copy of the session row on the page while the clock of the page    *)
(* stands still: no countdown reaches zero                                 *)
NextPoll ==
    \/ DeliverEventReq
    \/ LoseEventReq
    \/ PollFetch
    \/ PollApplyReq
    \/ ClickReq
    \/ ServeReq
    \/ HostServedReq
    \/ ReceiveReq

SpecPoll == InitClient /\ [][NextPoll]_vars /\ FairPoll

----------------------------------------------------------------------------
(* Vocabulary of the properties *)

IcebreakerRound == {"lobby", "asking", "showing_answers"}
QuizRound == {"quiz", "quiz_question", "quiz_results", "game_over"}

DocumentedAdjacency ==
    { <<"lobby", "asking">>,
      <<"asking", "showing_answers">>, <<"showing_answers", "asking">>,
      <<"showing_answers", "quiz">>,
      <<"quiz", "quiz_question">>,
      <<"quiz_question", "quiz_results">>, <<"quiz_results", "quiz_question">>,
      <<"quiz_results", "game_over">> }

AboutPlayer == quiz_questions[session.current_quiz_question_id].about_player_id

(* the stored answers of player p for the current quiz question *)
AnswerOf(p) ==
    {r \in quiz_answers :
        r.quiz_question_id = session.current_quiz_question_id /\ r.player_id = p}

AnsweredCorrectly(p) ==
    \E r \in AnswerOf(p) :
        r.selected_option = quiz_questions[session.current_quiz_question_id].correct_answer

SomeNonHostAnswered == \E p \in NonProjectors : AnswerOf(p) # {}

(* the scoring rule of the readme and of section 4.1 *)
RuleDelta(p) ==
    IF p = AboutPlayer
      THEN IF AnsweredCorrectly(p) THEN 2 ELSE -1
      ELSE IF AnsweredCorrectly(p) THEN 1 ELSE 0

RoundDelta(p) ==
    IF SomeNonHostAnswered THEN RuleDelta(p)
    ELSE IF p = AboutPlayer THEN -1 ELSE 0

EntriesOf(scoreChanges, p) ==
    {i \in DOMAIN scoreChanges : scoreChanges[i].playerId = p}

RECURSIVE ChangeOf(_, _)
ChangeOf(scoreChanges, p) ==
    IF scoreChanges = <<>> THEN 0
    ELSE (IF Head(scoreChanges).playerId = p THEN Head(scoreChanges).change ELSE 0)
            + ChangeOf(Tail(scoreChanges), p)

AfterShowResults ==
    resp.op = "quiz_next" /\ resp.req = "show_results" /\ resp.status = 200

(* the response the handler gives to a duplicate quiz answer *)
IsConflict(r) == r.status = 400 /\ r.error = "Already answered this question"

----------------------------------------------------------------------------
(* C1: the phase is always one of the 7 values and every phase change     *)
(* follows the documented adjacency, whatever the order of the host's      *)
(* requests.  (Spec)                                                       *)
C1_PhaseAdjacency ==
    [][ /\ session'.phase \in Phases
        /\ session'.phase # session.phase =>
              <<session.phase, session'.phase>> \in DocumentedAdjacency ]_vars

(* C2: no step leads from a quiz-round phase back to an icebreaker-round   *)
(* phase, and none from quiz_question or quiz_results back to quiz. (Spec) *)
C2_NoBackwardJump ==
    [][ /\ session.phase \in QuizRound => session'.phase \in QuizRound
        /\ session.phase \in {"quiz_question", "quiz_results"} =>
              session'.phase # "quiz" ]_vars

(* C3: game_over is terminal: no request changes the phase once it is      *)
(* game_over.  (Spec)                                                      *)
C3_GameOverTerminal ==
    [][ session.phase = "game_over" => session'.phase = "game_over" ]_vars

(* C4: when show_results has run and at least one non-host player has a    *)
(* stored answer for the current question, the change it reports for every *)
(* non-host player is +2 / -1 for the about player (correct / incorrect or *)
(* no answer) and +1 / 0 for the others.  (SpecQuiz)                       *)
C4_ScoreRule ==
    (AfterShowResults /\ SomeNonHostAnswered) =>
        \A p \in NonProjectors : ChangeOf(resp.scoreChanges, p) = RuleDelta(p)

C4_Witness ==
    /\ AfterShowResults
    /\ \E p, q \in NonProjectors :
          /\ p = AboutPlayer /\ AnswerOf(p) # {} /\ ~AnsweredCorrectly(p)
          /\ ChangeOf(resp.scoreChanges, p) = -1
          /\ q # p /\ AnsweredCorrectly(q)
          /\ ChangeOf(resp.scoreChanges, q) = 1

(* C5: a show_results step taken when no non-host player has a stored      *)
(* answer for the current question (the host's answer does not count)      *)
(* reports the single change -1 for the about player and changes no score  *)
(* but the about player's, which drops by 1 and not below 0.  (SpecQuiz)   *)
C5_UniversalTimeout ==
    [][ (shown' # shown /\ ~SomeNonHostAnswered) =>
          /\ Len(resp'.scoreChanges) = 1
          /\ resp'.scoreChanges[1].playerId = AboutPlayer
          /\ resp'.scoreChanges[1].change = -1
          /\ \A p \in DOMAIN players :
                players'[p].score =
                    IF p = AboutPlayer THEN Max(0, players[p].score - 1)
                                       ELSE players[p].score ]_vars

C5_Witness ==
    /\ AfterShowResults
    /\ ~SomeNonHostAnswered
    /\ AnswerOf(HostId) # {}
    /\ Len(resp.scoreChanges) = 1
    /\ resp.scoreChanges[1].change = -1
    /\ players[AboutPlayer].score = 1

(* C6: no score is ever negative.  (SpecQuiz)                              *)
C6_ScoreFloor == \A p \in DOMAIN players : players[p].score >= 0

C6_Witness ==
    /\ AfterShowResults
    /\ shown = 1
    /\ \E i \in DOMAIN resp.scoreChanges :
          /\ resp.scoreChanges[i].change = -1
          /\ players[resp.scoreChanges[i].playerId].score = 0

C8_ShowResultsTwice ==
    [][ (/\ session.phase = "quiz_results"
         /\ resp'.op = "quiz_next" /\ resp'.req = "show_results") =>
          /\ resp'.status = 200
          /\ shown' = shown + 1
          /\ \A p \in NonProjectors :
                players'[p].score = Max(0, players[p].score + RoundDelta(p)) ]_vars

C8_Witness ==
    /\ AfterShowResults
    /\ shown = 2
    /\ session.current_quiz_question_number = 1
    /\ \E p \in NonProjectors : players[p].score = 4

C10_RaceLoserConflict ==
    [][ \A req \in inflight :
          (/\ inflight' = inflight \ {req}
           /\ ExistingAnswer(req.quiz_question_id, req.player_id) # {}) =>
              IsConflict(resp') ]_vars

(* C11: a quiz answer is stored only while its question is open: every    *)
(* row added to quiz_answers is for the current quiz question and is added *)
(* while the phase is quiz_question, so an answer that arrives after       *)
(* show_results (phase quiz_results) or after the session moved on stores  *)
(* no row.  (SpecQuiz)                                                     *)
C11_LateAnswerRejected ==
    [][ \A r \in quiz_answers' \ quiz_answers :
          /\ session.phase = "quiz_question"
          /\ r.quiz_question_id = session.current_quiz_question_id ]_vars

(* C12: the upsert of a submit_answer request, in any interleaving with    *)
(* other requests, leaves exactly one row for its (question, player),      *)
(* carrying the text it wrote (the submitted text, trimmed), and leaves    *)
(* the rows of every other pair as they were; no other step changes the    *)
(* answers table.  (SpecIce)                                               *)
C12_LastWriteWins ==
    [][ /\ \A r1, r2 \in answers' :
              (r1.question_id = r2.question_id /\ r1.player_id = r2.player_id)
                  => r1 = r2
        /\ pending'.answers = pending.answers => answers' = answers
        /\ \A req \in pending.answers :
              pending'.answers = pending.answers \ {req} =>
                LET Same(r) == /\ r.question_id = req.question_id
                               /\ r.player_id = req.player_id
                IN /\ {r.answer_text : r \in {x \in answers' : Same(x)}}
                          = {Trim(req.answer)}
                   /\ {r \in answers' : ~Same(r)} = {r \in answers : ~Same(r)} ]_vars

(* a row written with trimmed text while a request with another text for   *)
(* the same (question, player) has passed its checks and will overwrite it *)
C12_Witness ==
    /\ resp.op = "answer" /\ resp.status = 200
    /\ \E r \in answers, req \in pending.answers :
          /\ r.question_id = req.question_id /\ r.player_id = req.player_id
          /\ r.answer_text = <<"y">>
          /\ req.answer = <<"x">>
          /\ \E o \in answers : o.player_id # r.player_id

(* C13: a generate_questions request of the host for a session that has   *)
(* icebreaker questions succeeds, returns the stored questions (the set    *)
(* the first call returned), and changes neither the questions table nor   *)
(* the session row, in whatever phase it arrives.  (Spec)                  *)
C13_GenerateIdempotent ==
    [][ (questions # <<>> /\ resp'.op = "generate_questions") =>
          /\ resp'.status = 200
          /\ resp'.questions = questions
          /\ questions' = questions
          /\ session' = session ]_vars

C13_Witness ==
    /\ resp.op = "generate_questions" /\ resp.status = 200
    /\ resp.questions = questions
    /\ Len(questions) = NumIcebreakers
    /\ session.phase = "quiz_results"
    /\ session.current_question_number = 2

(* C14: a quiz_generate request of the host for a session that has quiz    *)
(* questions succeeds, returns the stored quiz questions in question_order *)
(* and changes neither the quiz_questions table nor the session row        *)
(* (phase, quiz ordinal and pointer, quiz_started_at, question_deadline).  *)
(* (Spec)                                                                  *)
C14_QuizGenerateIdempotent ==
    [][ (quiz_questions # <<>> /\ resp'.op = "quiz_generate") =>
          /\ resp'.status = 200
          /\ resp'.quizQuestions = quiz_questions
          /\ \A i \in DOMAIN resp'.quizQuestions :
                resp'.quizQuestions[i].question_order = i
          /\ quiz_questions' = quiz_questions
          /\ session' = session ]_vars

C14_Witness ==
    /\ resp.op = "quiz_generate" /\ resp.status = 200
    /\ resp.quizQuestions = quiz_questions
    /\ Len(quiz_questions) = 4
    /\ session.phase = "quiz_results"
    /\ session.current_quiz_question_number = 3
    /\ session.question_deadline # NULL

(* C15: the session never holds more than 4 non-host players, whatever    *)
(* the interleaving of the join requests.  (SpecJoin)                      *)
C15_AtMostFourPlayers == Cardinality(NonProjectors) <= MaxPlayers

(* C16: whenever the session row exists and create is not between its two  *)
(* inserts, exactly one of the session's players has is_projector = true.  *)
(* (SpecCreate)                                                            *)
C16_ExactlyOneHost ==
    (session # NoSession /\ ~pending.create) =>
        Cardinality({i \in DOMAIN players : players[i].is_projector}) = 1

(* C17: start, generate_questions, the icebreaker advance, quiz_generate   *)
(* and the quiz advance, issued by a caller other than the host, are       *)
(* answered 403 when the caller is a player of the session and 404 when    *)
(* the caller is not, and change no table.  (SpecAuth)                     *)
C17_HostOnly ==
    [][ \A c \in Intruders :
          ( \/ resp'.op = "start" /\ Start(c)
            \/ /\ resp'.op = "generate_questions"
               /\ \E content \in LLMIcebreakers : GenerateQuestions(c, content)
            \/ /\ resp'.op = "next-question"
               /\ \E action \in {"show_answers", "next_question"} :
                     NextQuestion(c, action)
            \/ /\ resp'.op = "quiz_generate"
               /\ \E llm \in [NonProjectors -> {<<>>}], now \in Times :
                     QuizGenerate(c, llm, now)
            \/ /\ resp'.op = "quiz_next"
               /\ \E action \in {"show_results", "next_question"}, now \in Times :
                     QuizNext(c, action, now) ) =>
              /\ resp'.status = IF c \in DOMAIN players THEN 403 ELSE 404
              /\ UNCHANGED <<session, players, questions, answers,
                             quiz_questions, quiz_answers>> ]_vars

(* a player who is not the host was refused a quiz_generate that the host  *)
(* would have been granted                                                 *)
C17_Witness ==
    /\ resp.op = "quiz_generate" /\ resp.status = 403
    /\ session.status = "waiting"
    /\ session.phase = "showing_answers"
    /\ quiz_questions = <<>>
    /\ answers # {}

(* the response the handler gives to a start of a session that is not      *)
(* waiting                                                                 *)
IsAlreadyStarted(r) ==
    r.status = 400 /\ r.error = "Game already started or finished"

(* C18: a start request of the host succeeds exactly when the status is    *)
(* waiting, and then changes the status to playing and nothing else of the *)
(* session row; otherwise it is answered with the already-started          *)
(* rejection and the session row stays as it is.  No other row changes in  *)
(* either case.  (Spec)                                                    *)
C18_StartOnlyWhenWaiting ==
    [][ resp'.op = "start" =>
          /\ IF session.status = "waiting"
               THEN /\ resp'.status = 200
                    /\ session' = [session EXCEPT !.status = "playing"]
               ELSE /\ IsAlreadyStarted(resp')
                    /\ session' = session
          /\ UNCHANGED <<players, questions, answers, quiz_questions,
                         quiz_answers>> ]_vars

C18_Witness ==
    /\ resp.op = "start" /\ IsAlreadyStarted(resp)
    /\ session.status = "playing"
    /\ session.phase = "showing_answers"
    /\ session.current_question_number = 2

(* C19: a next_question request of the host on a session with T > 0       *)
(* icebreaker questions and ordinal k succeeds; when k + 1 > T it sets the *)
(* phase to quiz and the ordinal to T, otherwise it sets the phase to      *)
(* asking, the ordinal to k + 1 and current_question_id to the id of the   *)
(* question numbered k + 1; it changes nothing else.  (Spec)               *)
C19_IcebreakerAdvance ==
    [][ (/\ questions # <<>>
         /\ resp'.op = "next-question" /\ resp'.req = "next_question") =>
          LET k == session.current_question_number
              T == Len(questions)
          IN /\ resp'.status = 200
             /\ IF k + 1 > T
                  THEN session' = [session EXCEPT
                                     !.phase = "quiz",
                                     !.current_question_number = T]
                  ELSE /\ session'.current_question_id \in DOMAIN questions
                       /\ questions[session'.current_question_id].question_number
                             = k + 1
                       /\ session' = [session EXCEPT
                                        !.phase = "asking",
                                        !.current_question_number = k + 1,
                                        !.current_question_id =
                                            session'.current_question_id]
             /\ UNCHANGED <<players, questions, answers, quiz_questions,
                            quiz_answers>> ]_vars

(* the third next_question of a round of 3 questions *)
C19_Witness ==
    /\ resp.op = "next-question" /\ resp.req = "next_question"
    /\ resp.action = "quiz_start"
    /\ Len(questions) = 3
    /\ session.phase = "quiz"
    /\ session.current_question_number = 3
    /\ session.current_question_id = 3
    /\ quiz_questions = <<>>

(* C20: a next_question request of the host on a session with N > 0 quiz  *)
(* questions and quiz ordinal k succeeds; when k + 1 > N it sets the phase *)
(* to game_over and the ordinal to N and clears question_deadline,         *)
(* otherwise it sets the phase to quiz_question, the ordinal to k + 1,     *)
(* current_quiz_question_id to the id of the question with question_order  *)
(* k + 1 and question_deadline to the time of the request + 20 seconds; it *)
(* changes nothing else.  (Spec)                                           *)
C20_QuizAdvance ==
    [][ (/\ quiz_questions # <<>>
         /\ resp'.op = "quiz_next" /\ resp'.req = "next_question") =>
          LET k == session.current_quiz_question_number
              N == Len(quiz_questions)
          IN /\ resp'.status = 200
             /\ IF k + 1 > N
                  THEN session' = [session EXCEPT
                                     !.phase = "game_over",
                                     !.current_quiz_question_number = N,
                                     !.question_deadline = NULL]
                  ELSE /\ session'.current_quiz_question_id \in DOMAIN quiz_questions
                       /\ quiz_questions[session'.current_quiz_question_id]
                             .question_order = k + 1
                       /\ \E now \in LaterTimes :
                             session' = [session EXCEPT
                                 !.phase = "quiz_question",
                                 !.current_quiz_question_number = k + 1,
                                 !.current_quiz_question_id =
                                     session'.current_quiz_question_id,
                                 !.question_deadline = now + 20000]
             /\ UNCHANGED <<players, questions, answers, quiz_questions,
                            quiz_answers>> ]_vars

(* the quiz was advanced to its second question, with a new deadline, and  *)
(* then, from quiz_results at the last ordinal, to game_over               *)
C20_Witness ==
    /\ resp.op = "quiz_next" /\ resp.req = "next_question"
    /\ resp.action = "game_over"
    /\ session.phase = "game_over"
    /\ Len(quiz_questions) = 2
    /\ session.current_quiz_question_number = 2
    /\ session.current_quiz_question_id = 2
    /\ session.question_deadline = NULL
    /\ shown = 2

(* C21: a show_answers request of the host on a session that has          *)
(* icebreaker questions succeeds and changes the phase, to                 *)
(* showing_answers, and nothing else: the other columns of the session row *)
(* and the players, questions, answers and quiz rows stay.  (Spec)         *)
C21_ShowAnswersFrame ==
    [][ (/\ questions # <<>>
         /\ resp'.op = "next-question" /\ resp'.req = "show_answers") =>
          /\ resp'.status = 200
          /\ session' = [session EXCEPT !.phase = "showing_answers"]
          /\ UNCHANGED <<players, questions, answers, quiz_questions,
                         quiz_answers>> ]_vars

C21_Witness ==
    /\ resp.op = "next-question" /\ resp.req = "show_answers"
    /\ resp.status = 200
    /\ session.phase = "showing_answers"
    /\ session.status = "playing"
    /\ session.current_question_number = 2
    /\ session.current_question_id = 2
    /\ answers # {}
    /\ Len(players) > 1

(* C22: every stored quiz answer has a selected option among A, B, C, D   *)
(* and an is_correct equal to (selected option = correct_answer of its     *)
(* quiz question); a submission with another label is answered 400 and     *)
(* stores nothing.  (SpecAnswer)                                           *)
C22_QuizAnswerValid ==
    [][ /\ \A r \in quiz_answers' :
              /\ r.selected_option \in {"A", "B", "C", "D"}
              /\ r.quiz_question_id \in DOMAIN quiz_questions'
              /\ r.is_correct =
                    (r.selected_option =
                        quiz_questions'[r.quiz_question_id].correct_answer)
        /\ \A p \in DOMAIN players, l \in Labels \ {"A", "B", "C", "D"} :
              SubmitQuizAnswer(session.current_quiz_question_id, p, l) =>
                  /\ resp'.status = 400
                  /\ quiz_answers' = quiz_answers ]_vars

(* a label outside A-D was refused for an open question that has a stored, *)
(* correct answer B                                                        *)
C22_Witness ==
    /\ resp.op = "quiz_answer" /\ resp.status = 400
    /\ resp.error = "Invalid option. Must be A, B, C, or D"
    /\ session.phase = "quiz_question"
    /\ \E r \in quiz_answers : r.selected_option = "B" /\ r.is_correct

----------------------------------------------------------------------------
(* the stored quiz questions about player p *)
QuestionsAbout(qqs, p) == {i \in DOMAIN qqs : qqs[i].about_player_id = p}

(* C23: when quiz_generate persists the quiz, it stores exactly two        *)
(* questions about every non-host player who answered an icebreaker        *)
(* question and none about a player who answered nothing, whatever the     *)
(* text-generation call returned                                           *)
C23_TwoPerAnsweringPlayer ==
    [][ (quiz_questions = <<>> /\ quiz_questions' # <<>>) =>
          \A p \in NonProjectors :
              Cardinality(QuestionsAbout(quiz_questions', p)) =
                  IF HasAnswered(p) THEN QUESTIONS_PER_PLAYER ELSE 0 ]_vars

(* the correct labels of the stored questions about player p, in order *)
LabelsAbout(qqs, p) ==
    LET about == SelectSeq(qqs, LAMBDA r : r.about_player_id = p)
    IN [i \in DOMAIN about |-> about[i].correct_answer]

(* the round of the question at position i: how many earlier questions are *)
(* about the same player                                                   *)
RoundOf(qqs, i) ==
    Cardinality({j \in QuestionsAbout(qqs, qqs[i].about_player_id) : j < i})

(* C24: the quiz that quiz_generate stores has question_order 1..N in      *)
(* table order, runs round-robin over the players (the first question of   *)
(* each player in roster order, then the second of each), and holds for    *)
(* every player exactly the questions generated for that player, in their  *)
(* order, whether a player has one or two of them                          *)
C24_RoundRobinOrder ==
    [][ (quiz_questions = <<>> /\ quiz_questions' # <<>>) =>
          /\ \A i \in DOMAIN quiz_questions' : quiz_questions'[i].question_order = i
          /\ \A i, j \in DOMAIN quiz_questions' :
                i < j =>
                  \/ RoundOf(quiz_questions', i) < RoundOf(quiz_questions', j)
                  \/ /\ RoundOf(quiz_questions', i) = RoundOf(quiz_questions', j)
                     /\ quiz_questions'[i].about_player_id
                            < quiz_questions'[j].about_player_id
          /\ \A llm \in [NonProjectors -> LLMQuizWide], now \in Times :
                QuizGenerateInsert(HostId, llm, now, TRUE) =>
                  \A p \in NonProjectors :
                      LET generated ==
                              IF HasAnswered(p)
                                THEN generateQuestionsForPlayer(p,
                                         Cardinality({a \in answers : a.player_id = p}),
                                         llm[p])
                                ELSE <<>>
                      IN LabelsAbout(quiz_questions', p) =
                             [i \in DOMAIN generated |-> generated[i].correctAnswer]
        ]_vars

(* two players with two questions and one question *)
C24_Witness ==
    /\ Len(quiz_questions) = 3
    /\ [i \in 1..3 |-> quiz_questions[i].about_player_id] = <<2, 3, 2>>
    /\ [i \in 1..3 |-> quiz_questions[i].correct_answer] = <<"B", "C", "A">>
    /\ pending.quizGenerate # <<>>

(* the not-found kind: the status of 'Game not found' and of 'Player not   *)
(* found in game'                                                          *)
IsNotFound(r) == r.status = 404

MissingUpstreamData ==
    \/ NonProjectors = {}
    \/ questions = <<>>
    \/ ~\E p \in NonProjectors : HasAnswered(p)

(* C25: quiz_generate by the host on a session with no non-host player, no *)
(* icebreaker question or no icebreaker answer is answered with an error   *)
(* that is not of the not-found kind, and writes nothing                   *)
C25_PreconditionFailedKind ==
    [][ \A llm \in [NonProjectors -> LLMQuizWide], now \in Times :
          (/\ quiz_questions = <<>>
           /\ MissingUpstreamData
           /\ QuizGenerateInsert(HostId, llm, now, TRUE)) =>
             /\ resp'.op = "quiz_generate"
             /\ resp'.status >= 400
             /\ ~IsNotFound(resp')
             /\ quiz_questions' = quiz_questions
             /\ session' = session ]_vars

(* the outputs of the icebreaker call that count as a failure of the       *)
(* text-generation collaborator                                            *)
LLMIcebreakerFailures == {c \in LLMIcebreakersWide : c = Throws \/ Len(c) # NumIcebreakers}

(* C26: when the text-generation call fails, returns unparsable output or  *)
(* returns the wrong number of items, generate_questions and quiz_generate *)
(* (with a working store) still persist questions, the fallback content    *)
(* where the output was unusable, instead of answering with an error       *)
C26_LLMFailureRecovered ==
    [][ /\ \A content \in LLMIcebreakerFailures :
              (questions = <<>> /\ GenerateInsert(HostId, content, TRUE)) =>
                  questions' = StoredIcebreakers
        /\ \A llm \in [NonProjectors -> LLMQuizWide], now \in Times :
              (/\ quiz_questions = <<>>
               /\ ~MissingUpstreamData
               /\ QuizGenerateInsert(HostId, llm, now, TRUE)) =>
                  /\ quiz_questions' # <<>>
                  /\ \A p \in NonProjectors :
                        (HasAnswered(p) /\ llm[p] = <<>>) =>
                            /\ QuestionsAbout(quiz_questions', p) # {}
                            /\ \A i \in QuestionsAbout(quiz_questions', p) :
                                  quiz_questions'[i].correct_answer = "A" ]_vars

(* C27: a request answered with an error response has changed no table:    *)
(* the tables after a handler's error response are the tables the request  *)
(* found, for the one-statement handlers and for create, whose request     *)
(* found no session row                                                    *)
C27_ErrorLeavesStateUnchanged ==
    [][ /\ (~pending.create /\ resp' # resp /\ resp'.status >= 400) =>
              UNCHANGED <<session, players, questions, answers,
                          quiz_questions, quiz_answers>>
        /\ (pending.create /\ ~pending'.create /\ resp'.status >= 400) =>
              /\ session' = NoSession
              /\ players' = <<>> ]_vars

(* C28: when generate_questions answers with success for a session that    *)
(* had no questions, the session is in phase asking at question number 1   *)
(* with current_question_id on the question numbered 1; when quiz_generate *)
(* answers with success for a session that had no quiz questions, the      *)
(* session is in phase quiz_question at ordinal 1 with the pointer on      *)
(* question_order 1, quiz_started_at set to the handler's time and the     *)
(* deadline DeadlineMs after it                                            *)
C28_SuccessImpliesStarted ==
    [][ /\ (/\ pending.generate # <<>>
            /\ pending'.generate = <<>>
            /\ resp'.op = "generate_questions" /\ resp'.status = 200) =>
              /\ session'.phase = "asking"
              /\ session'.current_question_number = 1
              /\ session'.current_question_id \in DOMAIN questions'
              /\ questions'[session'.current_question_id].question_number = 1
        /\ (/\ pending.quizGenerate # <<>>
            /\ pending'.quizGenerate = <<>>
            /\ resp'.op = "quiz_generate" /\ resp'.status = 200) =>
              /\ session'.phase = "quiz_question"
              /\ session'.current_quiz_question_number = 1
              /\ session'.current_quiz_question_id \in DOMAIN quiz_questions'
              /\ quiz_questions'[session'.current_quiz_question_id].question_order = 1
              /\ session'.quiz_started_at = Head(pending.quizGenerate).now
              /\ session'.question_deadline =
                     Head(pending.quizGenerate).now + DeadlineMs ]_vars

(* C29: a step changes the score of a player only when it is a served      *)
(* show_results and the player is a non-host player of the session; join   *)
(* adds players with score 0 and the host's score is 0 throughout          *)
C29_ScoresOnlyByShowResults ==
    [][ /\ \A p \in DOMAIN players :
              players'[p].score # players[p].score =>
                  /\ shown' = shown + 1
                  /\ resp'.op = "quiz_next" /\ resp'.req = "show_results"
                  /\ resp'.status = 200
                  /\ ~players[p].is_projector
        /\ \A p \in DOMAIN players' \ DOMAIN players : players'[p].score = 0
        /\ players'[HostId].is_projector /\ players'[HostId].score = 0 ]_vars

(* show_results has given a point to a player and none to the host, who    *)
(* answered the question correctly                                         *)
C29_Witness ==
    /\ AfterShowResults
    /\ \E p \in NonProjectors : players[p].score > 0
    /\ \E r \in quiz_answers :
          /\ r.player_id = HostId
          /\ r.is_correct
          /\ r.quiz_question_id = session.current_quiz_question_id
    /\ players[HostId].score = 0


C31_AutoShowAtZero ==
    \A call \in client.calls : call.auto => call.remaining = 0

(* C32: once the stored session row has stopped changing, the copy of    *)
(* the row on every connected page (phase, ordinals, pointers, deadline)   *)
(* equals the stored row at some later time, again and again, when the     *)
(* 3-second poll is executed fairly, also when events of the change feed   *)
(* are lost, delivered twice or out of order                               *)
C32_PollConverges == []<>(client.game = session)

(* the quiz is over, no event is on its way to a player's page and the     *)
(* poll has written the copy of the page, which equals the stored row      *)
C32_Witness ==
    /\ session.phase = "game_over"
    /\ ~IsHost
    /\ client.feed = {}
    /\ client.wrote = "poll"
    /\ client.game = session

(* C33: however concurrent generate_questions requests, and concurrent     *)
(* quiz_generate requests, interleave, the session has a single question   *)
(* set: no two icebreaker questions share a question_number and no two     *)
(* quiz questions share a question_order                                   *)
C33_SingleQuestionSet ==
    /\ \A i, j \in DOMAIN questions :
          i # j => questions[i].question_number # questions[j].question_number
    /\ \A i, j \in DOMAIN quiz_questions :
          i # j => quiz_questions[i].question_order # quiz_questions[j].question_order

(* C34: once the status of the session is playing no player is added: the  *)
(* roster at the moment start completes is the final roster, however the   *)
(* join and start requests interleave                                      *)
C34_RosterFinalAfterStart ==
    [][ session.status = "playing" => players' = players ]_vars

(* the score of player p after the reported score changes have been        *)
(* applied one response after the other, each clamped at zero              *)
RECURSIVE SerialScore(_, _, _)
SerialScore(score, reported, p) ==
    IF reported = <<>> THEN score
    ELSE SerialScore(Max(0, score + ChangeOf(Head(reported), p)), Tail(reported), p)

SerialOrders(reported) ==
    {[k \in DOMAIN reported |-> reported[order[k]]] :
        order \in Permutations(DOMAIN reported)}

(* C35: however show_results requests interleave, once all of them have    *)
(* been answered every stored score is the result of applying, in some     *)
(* serial order, the clamped deltas reported by the successful show_results *)
(* responses: no update computed from the same snapshot is lost             *)
C35_NoLostUpdate ==
    pending.showResults = <<>> =>
        \E serial \in SerialOrders(pending.reported) :
            \A p \in NonProjectors : players[p].score = SerialScore(0, serial, p)

(* C36: every stored quiz answer is taken into account when its question   *)
(* is scored: when show_results answers, every player whose stored answer  *)
(* to the scored question is correct gets points, and the round is not     *)
(* scored as a universal timeout while an answer row of a player exists    *)
C36_StoredAnswersScored ==
    [][ shown' # shown =>
          LET scored == {a \in quiz_answers' :
                            /\ a.quiz_question_id = session.current_quiz_question_id
                            /\ a.player_id \in NonProjectors}
          IN /\ \A a \in scored :
                   a.is_correct => ChangeOf(resp'.scoreChanges, a.player_id) > 0
             /\ (\E i \in DOMAIN resp'.scoreChanges :
                    resp'.scoreChanges[i].reason = "Everyone ran out of time")
                  => scored = {} ]_vars

(* C37: whenever the phase of the session is not lobby, its status is      *)
(* playing, so that join, which tests status = waiting, adds no player     *)
(* once the icebreaker round has begun                                     *)
C37_PhaseImpliesPlaying ==
    /\ [](session.phase # "lobby" => session.status = "playing")
    /\ [][ (session.phase # "lobby" /\ resp'.op = "join") =>
             players' = players ]_vars

C39_CorrectLabelValid ==
    \A i \in DOMAIN quiz_questions :
        /\ quiz_questions[i].correct_answer \in Options
        /\ \E l \in Options :
              QuizAnswerValidate(i, HostId, l).status = 0
                  /\ NewQuizAnswer(i, HostId, l).is_correct

====
